---- MODULE Spec2Model ----
(***************************************************************************)
(* AlgoTradeHub: the trade tracker (src/utils/trade_tracker.py), the       *)
(* position sizing and signal generators (src/strategy.py) and the         *)
(* adaptive stops (src/utils/risk_manager.py) as state machines.           *)
(*                                                                         *)
(* Python floats are modelled as exact rationals <<n, d>> with d > 0 and   *)
(* gcd(n, d) = 1; NaN is the pair <<0, 0>>.  Comparisons with NaN are      *)
(* false, as in Python.                                                    *)
(***************************************************************************)
EXTENDS Integers, Sequences, FiniteSets, TLC

VARIABLES
    \* TradeTracker (src/utils/trade_tracker.py)
    trades,            \* self.trades: the Trade objects, in creation order
    open_positions,    \* self.open_positions: position key -> index into trades
    closed_trades,     \* self.closed_trades: indices into trades, in closing order
    data_file,         \* what save_trades last wrote to data/trades.json
    now,               \* datetime.now(): advances with every completed open or close
    \* TradingStrategy sizing (src/strategy.py)
    config,            \* self.config: risk_per_trade, initial_capital, strategy name
    recent_trades,     \* self.recent_trades, read with getattr(..., [])
    sizing,            \* arguments and result of calculate_position_size
    \* TradingStrategy signal generators (src/strategy.py)
    df,                \* the DataFrame passed in: length, columns, last two rows
    sig,               \* generator called and the signal (or None) it returned
    \* RiskManager (src/utils/risk_manager.py)
    stops,             \* arguments and result of set_adaptive_stops
    \* a generator called bar after bar on a growing series
    emitted,           \* generator, its columns and the action returned, per bar
    \* MetricsCalculator (src/utils/metrics_calculator.py)
    metrics,           \* arguments and results of the calculator's methods
    \* RiskManager trade validation (src/utils/risk_manager.py)
    risk,              \* self.open_positions, the proposed trade and the verdict
    \* BacktestEngine (src/backtest.py)
    backtest           \* the window, self.trades, the bars evaluated and the results

vars == <<trades, open_positions, closed_trades, data_file, now,
          config, recent_trades, sizing, df, sig, stops, emitted, metrics, risk, backtest>>

trackerVars == <<trades, open_positions, closed_trades, data_file, now>>
sizingVars  == <<config, recent_trades, sizing>>
signalVars  == <<df, sig>>
stopVars    == <<stops>>
barVars     == <<emitted>>
metricVars  == <<metrics>>
riskVars    == <<risk>>
backtestVars == <<backtest>>

\* Python's None, where a record, a number or a sequence may stand
None == <<>>

----------------------------------------------------------------------------
(* Exact arithmetic for Python floats.                                     *)

RECURSIVE GCD(_, _)
GCD(a, b) == IF b = 0 THEN a ELSE GCD(b, a % b)

Abs(n) == IF n < 0 THEN -n ELSE n

NaN == <<0, 0>>

IsNaN(x) == x[2] = 0

Norm(n, d) ==
    IF d = 0 THEN NaN
    ELSE LET g == GCD(Abs(n), Abs(d))
             s == IF d < 0 THEN -1 ELSE 1
         IN  <<(s * n) \div g, (s * d) \div g>>

R(n) == <<n, 1>>

Frac(n, d) == Norm(n, d)

RAdd(x, y) ==
    IF IsNaN(x) \/ IsNaN(y) THEN NaN
    ELSE LET g == GCD(x[2], y[2])
         IN  Norm(x[1] * (y[2] \div g) + y[1] * (x[2] \div g), x[2] * (y[2] \div g))

RNeg(x) == <<-x[1], x[2]>>

RSub(x, y) == RAdd(x, RNeg(y))

RMul(x, y) ==
    IF IsNaN(x) \/ IsNaN(y) THEN NaN
    ELSE LET a == Norm(x[1], y[2])
             b == Norm(y[1], x[2])
         IN  Norm(a[1] * b[1], a[2] * b[2])

\* x / y for y # 0; the callers model ZeroDivisionError themselves.
RDiv(x, y) ==
    IF IsNaN(x) \/ IsNaN(y) \/ y[1] = 0 THEN NaN
    ELSE RMul(x, Norm(y[2], y[1]))

RAbs(x) == <<Abs(x[1]), x[2]>>

RLt(x, y) == ~IsNaN(x) /\ ~IsNaN(y) /\ x[1] * y[2] < y[1] * x[2]
RLe(x, y) == ~IsNaN(x) /\ ~IsNaN(y) /\ x[1] * y[2] <= y[1] * x[2]
RGt(x, y) == RLt(y, x)
RGe(x, y) == RLe(y, x)
RZero(x) == ~IsNaN(x) /\ x[1] = 0

\* Python's builtin min(a, b) and max(a, b): the first argument unless the
\* second compares strictly smaller (larger).
PyMin(a, b) == IF RLt(b, a) THEN b ELSE a
PyMax(a, b) == IF RGt(b, a) THEN b ELSE a

RECURSIVE RSum(_)
RSum(s) == IF s = <<>> THEN R(0) ELSE RAdd(s[1], RSum(Tail(s)))

\* numpy.mean of a non-empty list
Mean(s) == RDiv(RSum(s), R(Len(s)))

\* s[-n:]
LastN(s, n) == IF Len(s) <= n THEN s ELSE SubSeq(s, Len(s) - n + 1, Len(s))

----------------------------------------------------------------------------
(* TradeTracker: src/utils/trade_tracker.py                                *)

MaxTrades == 2      \* bound on len(self.trades)

Exchanges == {"binance"}
Symbols == {"BTC/USDT"}
\* 'buy' and 'sell' are the values Trade.side documents; 'BUY' is the action
\* string the signal generators emit.
Sides == {"buy", "sell", "BUY"}
OpenPrices == {R(100)}
Prices == {R(90), R(110)}
Quantities == {R(0), R(10)}

\* self.config.get('trading', {}).get('commission', 0.001)
commission_rate == Frac(1, 1000)

OPEN == "open"
CLOSED == "closed"

\* Trade(...) as open_position builds it; the dataclass defaults fill the rest.
Trade(exchange, symbol, side, entry_price, quantity, t) ==
    [id |-> <<exchange, symbol, side, t>>,
     exchange |-> exchange, symbol |-> symbol, side |-> side,
     entry_price |-> entry_price, quantity |-> quantity, entry_time |-> t,
     exit_price |-> None, exit_time |-> None, status |-> OPEN,
     pnl |-> R(0), pnl_percentage |-> R(0), commission |-> R(0)]

\* datetime.isoformat()
IsoFormat(t) == <<"iso", t>>

to_dict(trade) ==
    [trade EXCEPT !.entry_time = IsoFormat(trade.entry_time),
                  !.exit_time = IF trade.exit_time # None
                                THEN <<IsoFormat(trade.exit_time[1])>> ELSE None]

\* the 'trades' list save_trades dumps
SavedTrades(ts) == [i \in 1..Len(ts) |-> to_dict(ts[i])]

get_position_key(exchange, symbol, side) == <<exchange, symbol, side>>

\* datetime.fromisoformat()
FromIsoFormat(s) == s[2]

\* Trade.from_dict: the two times are parsed when they are strings (lines 57-64)
from_dict(data) ==
    [data EXCEPT !.entry_time = FromIsoFormat(data.entry_time),
                 !.exit_time = IF data.exit_time # None
                               THEN <<FromIsoFormat(data.exit_time[1])>> ELSE None]

\* what load_trades leaves in a fresh tracker: every trade of the file is
\* appended to trades; one with status 'open' is put under its key in
\* open_positions (a later one replaces an earlier one), any other is appended
\* to closed_trades (lines 83-103)
load_trades(file) ==
    LET loaded == IF file = None THEN <<>>
                  ELSE [i \in 1..Len(file) |-> from_dict(file[i])]
        KeyAt(i) == get_position_key(loaded[i].exchange, loaded[i].symbol, loaded[i].side)
        IsOpenAt(i) == loaded[i].status = OPEN
        IsClosedAt(i) == loaded[i].status # OPEN
        open == {i \in 1..Len(loaded) : IsOpenAt(i)}
    IN  [trades |-> loaded,
         open_positions |->
             [k \in {KeyAt(i) : i \in open} |->
                 CHOOSE i \in open : /\ KeyAt(i) = k
                                     /\ \A j \in open : KeyAt(j) = k => j <= i],
         closed_trades |-> SelectSeq([i \in 1..Len(loaded) |-> i], IsClosedAt)]

\* self.open_positions[key] = value
DictSet(d, key, value) ==
    [k \in DOMAIN d \cup {key} |-> IF k = key THEN value ELSE d[k]]

\* del self.open_positions[key]
DictDel(d, key) == [k \in DOMAIN d \ {key} |-> d[k]]

\* the price difference times the quantity, by side (lines 182-185, 226-229)
GrossPnl(trade, price) ==
    IF trade.side = "buy"
    THEN RMul(RSub(price, trade.entry_price), trade.quantity)
    ELSE RMul(RSub(trade.entry_price, price), trade.quantity)

\* (pnl / (entry_price * quantity)) * 100
PnlPercentage(trade, pnl) ==
    RMul(RDiv(pnl, RMul(trade.entry_price, trade.quantity)), R(100))

\* ZeroDivisionError in the percentage: the guard is entry_price > 0 only
PercentageRaises(trade) ==
    RGt(trade.entry_price, R(0)) /\ RZero(RMul(trade.entry_price, trade.quantity))

\* commission charged on the exit notional only
CommissionExitOnly(trade, exit_price) ==
    RMul(RMul(exit_price, trade.quantity), commission_rate)

Commission(trade, exit_price) ==
    RAdd(RMul(RMul(trade.entry_price, trade.quantity), commission_rate),
         RMul(RMul(exit_price, trade.quantity), commission_rate))

\* the fields close_position has written when the percentage raises
HalfClosed(trade, exit_price, t) ==
    [trade EXCEPT !.exit_price = exit_price, !.exit_time = <<t>>, !.status = CLOSED,
                  !.pnl = GrossPnl(trade, exit_price)]

\* the trade as close_position leaves it when it returns
Closed(trade, exit_price, t) ==
    LET gross == GrossPnl(trade, exit_price)
        c == Commission(trade, exit_price)
    IN  [trade EXCEPT !.exit_price = exit_price, !.exit_time = <<t>>, !.status = CLOSED,
                      !.pnl_percentage =
                          IF RGt(trade.entry_price, R(0))
                          THEN PnlPercentage(trade, gross) ELSE @,
                      !.commission = c,
                      !.pnl = RSub(gross, c)]

\* open_positions after close_position has moved the trade to closed_trades
AfterClose(d, key) == DictDel(d, key)

\* the trade as update_position_price leaves it
Repriced(trade, current_price) ==
    LET unrealized == GrossPnl(trade, current_price)
    IN  [trade EXCEPT !.pnl = unrealized,
                      !.pnl_percentage =
                          IF RGt(trade.entry_price, R(0)) /\ ~PercentageRaises(trade)
                          THEN PnlPercentage(trade, unrealized) ELSE @]

open_position(exchange, symbol, side, entry_price, quantity) ==
    /\ Len(trades) < MaxTrades
    /\ LET trade == Trade(exchange, symbol, side, entry_price, quantity, now)
           key == get_position_key(exchange, symbol, side)
       IN  /\ trades' = Append(trades, trade)
           /\ open_positions' = DictSet(open_positions, key, Len(trades) + 1)
           /\ data_file' = SavedTrades(trades')
    /\ now' = now + 1
    /\ UNCHANGED closed_trades

close_position(exchange, symbol, side, exit_price) ==
    LET key == get_position_key(exchange, symbol, side)
    IN  IF key \notin DOMAIN open_positions
        THEN UNCHANGED <<trades, open_positions, closed_trades, data_file, now>>
        ELSE LET i == open_positions[key]
                 trade == trades[i]
             IN  IF PercentageRaises(trade)
                 THEN /\ trades' = [trades EXCEPT ![i] = HalfClosed(trade, exit_price, now)]
                      /\ UNCHANGED <<open_positions, closed_trades, data_file, now>>
                 ELSE /\ trades' = [trades EXCEPT ![i] = Closed(trade, exit_price, now)]
                      /\ closed_trades' = Append(closed_trades, i)
                      /\ open_positions' = AfterClose(open_positions, key)
                      /\ data_file' = SavedTrades(trades')
                      /\ now' = now + 1

update_position_price(exchange, symbol, side, current_price) ==
    LET key == get_position_key(exchange, symbol, side)
    IN  /\ IF key \in DOMAIN open_positions
           THEN LET i == open_positions[key]
                IN  trades' = [trades EXCEPT ![i] = Repriced(trades[i], current_price)]
           ELSE UNCHANGED trades
        /\ UNCHANGED <<open_positions, closed_trades, data_file, now>>

OpenPosition ==
    \E e \in Exchanges, s \in Symbols, side \in Sides, p \in OpenPrices, q \in Quantities :
        open_position(e, s, side, p, q)

ClosePosition ==
    \E e \in Exchanges, s \in Symbols, side \in Sides, p \in Prices :
        close_position(e, s, side, p)

UpdatePositionPrice ==
    \E e \in Exchanges, s \in Symbols, side \in Sides, p \in Prices :
        update_position_price(e, s, side, p)

----------------------------------------------------------------------------
(* TradingStrategy position sizing: src/strategy.py, lines 615-755         *)

MaxHistory == 5     \* bound on len(self.recent_trades)

\* recent trades as the helpers read them: t.get('pnl', 0), t.get('pnl_pct', 0)
TradeOutcomes ==
    { [pnl |-> R(30), pnl_pct |-> Frac(3, 100)],
      [pnl |-> R(-10), pnl_pct |-> Frac(-1, 100)],
      [pnl |-> R(0), pnl_pct |-> R(0)] }

RECURSIVE SeqsUpTo(_, _)
SeqsUpTo(S, n) ==
    IF n = 0 THEN {<<>>}
    ELSE LET shorter == SeqsUpTo(S, n - 1)
         IN  shorter \cup {Append(h, x) : h \in {g \in shorter : Len(g) = n - 1}, x \in S}

Histories == SeqsUpTo(TradeOutcomes, MaxHistory)

SizingPrices == {R(0), R(5000), R(110000)}
Atrs == {NaN, R(0), R(10), R(100), R(300)}
Balances == {None, R(1000), R(10000)}
BaseRisks == {Frac(1, 100), Frac(2, 100)}

PnlPcts(ts) == [i \in 1..Len(ts) |-> ts[i].pnl_pct]

IsWin(t) == RGt(t.pnl, R(0))
IsPositive(x) == RGt(x, R(0))
IsNegative(x) == RLt(x, R(0))

\* numpy.std squared: the mean of the squared deviations from the mean
Variance(xs) ==
    LET m == Mean(xs)
    IN  Mean([i \in 1..Len(xs) |-> RMul(RSub(xs[i], m), RSub(xs[i], m))])

\* avg/std > 1.0, without the square root: avg > 0 and avg^2 > var
SharpeAboveOne(avg, var) == RGt(avg, R(0)) /\ RGt(RMul(avg, avg), var)

\* avg/std < -0.5: avg < 0 and avg^2 > var/4
SharpeBelowMinusHalf(avg, var) ==
    RLt(avg, R(0)) /\ RGt(RMul(avg, avg), RDiv(var, R(4)))

adjust_risk_based_on_performance(base_risk) ==
    IF Len(recent_trades) < 5 THEN base_risk
    ELSE LET recent_returns == PnlPcts(LastN(recent_trades, 10))
             avg_return == Mean(recent_returns)
             var == Variance(recent_returns)
         IN  IF RGt(var, R(0)) /\ SharpeAboveOne(avg_return, var)
             THEN PyMin(RMul(base_risk, Frac(3, 2)), Frac(3, 100))
             ELSE IF RGt(var, R(0)) /\ SharpeBelowMinusHalf(avg_return, var)
             THEN PyMax(RMul(base_risk, Frac(1, 2)), Frac(5, 1000))
             ELSE base_risk

\* the stop three ATRs wide in quiet markets and one and a half in volatile ones
AtrStopDistanceInverted(price, atr) ==
    LET volatility_ratio == RDiv(atr, price)
        atr_multiplier == IF RGt(volatility_ratio, Frac(5, 100)) THEN Frac(3, 2)
                          ELSE IF RLt(volatility_ratio, Frac(1, 100)) THEN R(3)
                          ELSE R(2)
    IN  PyMax(RMul(price, Frac(5, 1000)),
              PyMin(RMul(atr_multiplier, atr), RMul(price, Frac(5, 100))))

\* price, atr > 0 or NaN: the body after the atr <= 0 test
AtrStopDistance(price, atr) ==
    LET volatility_ratio == RDiv(atr, price)
        atr_multiplier == IF RGt(volatility_ratio, Frac(5, 100)) THEN R(3)
                          ELSE IF RLt(volatility_ratio, Frac(1, 100)) THEN Frac(3, 2)
                          ELSE R(2)
        stop_distance == RMul(atr_multiplier, atr)
        min_stop == RMul(price, Frac(5, 1000))
        max_stop == RMul(price, Frac(5, 100))
    IN  PyMax(min_stop, PyMin(stop_distance, max_stop))

calculate_dynamic_stop_distance(price, atr) ==
    IF RLe(atr, R(0)) THEN RMul(price, Frac(2, 100))
    ELSE IF RZero(price) THEN RMul(price, Frac(2, 100))  \* atr / price raises: except branch
    ELSE AtrStopDistance(price, atr)

get_recent_win_rate ==
    IF Len(recent_trades) < 5 THEN Frac(1, 2)
    ELSE LET last == LastN(recent_trades, 20)
             n == IF Len(recent_trades) < 20 THEN Len(recent_trades) ELSE 20
         IN  Frac(Len(SelectSeq(last, IsWin)), n)

get_average_win ==
    LET winning_trades == SelectSeq(PnlPcts(LastN(recent_trades, 20)), IsPositive)
    IN  IF winning_trades # <<>> THEN Mean(winning_trades) ELSE Frac(2, 100)

get_average_loss ==
    LET losses == SelectSeq(PnlPcts(LastN(recent_trades, 20)), IsNegative)
        losing_trades == [i \in 1..Len(losses) |-> RAbs(losses[i])]
    IN  IF losing_trades # <<>> THEN Mean(losing_trades) ELSE Frac(15, 1000)

\* risk_per_trade after the Kelly adjustment (lines 633-640)
KellyRisk(risk_per_trade) ==
    LET win_rate == get_recent_win_rate
        avg_win == get_average_win
        avg_loss == get_average_loss
    IN  IF RGt(avg_loss, R(0)) /\ RGt(win_rate, R(0))
        THEN LET raw == RDiv(RSub(RMul(win_rate, avg_win),
                                  RMul(RSub(R(1), win_rate), avg_loss)), avg_win)
                 kelly_fraction == PyMax(R(0), PyMin(raw, Frac(25, 100)))
             IN  PyMin(risk_per_trade, kelly_fraction)
        ELSE risk_per_trade

\* quantity from the position size and the 10% limit (lines 645-653)
CappedQuantity(position_size, price, account_balance) ==
    LET max_position_value == RMul(account_balance, Frac(1, 10))
        max_quantity == RDiv(max_position_value, price)
        quantity == PyMin(RDiv(position_size, price), max_quantity)
    IN  PyMax(Frac(1, 1000), quantity)

calculate_position_size(price, atr, balance) ==
    LET account_balance == IF balance = None THEN config.initial_capital ELSE balance
        base_risk == config.risk_per_trade
        risk_per_trade == KellyRisk(adjust_risk_based_on_performance(base_risk))
        stop_loss_distance == calculate_dynamic_stop_distance(price, atr)
    IN  IF RZero(stop_loss_distance) \/ RZero(price)
        THEN Frac(1, 10)            \* ZeroDivisionError: the except branch
        ELSE CappedQuantity(RDiv(RMul(account_balance, risk_per_trade), stop_loss_distance),
                            price, account_balance)

CalculatePositionSize ==
    /\ sizing.quantity = None
    /\ sizing' = [sizing EXCEPT
                    !.quantity = calculate_position_size(sizing.price, sizing.atr,
                                                         sizing.account_balance),
                    \* the local risk_per_trade the size was computed from (line 640)
                    !.risk_per_trade =
                        <<KellyRisk(adjust_risk_based_on_performance(config.risk_per_trade))>>]
    /\ UNCHANGED <<config, recent_trades>>

\* a direct call of calculate_dynamic_stop_distance
CalculateDynamicStopDistance ==
    /\ sizing.stop_distance = None
    /\ sizing' = [sizing EXCEPT
                    !.stop_distance = calculate_dynamic_stop_distance(sizing.price,
                                                                      sizing.atr)]
    /\ UNCHANGED <<config, recent_trades>>

----------------------------------------------------------------------------
(* RiskManager adaptive stops: src/utils/risk_manager.py, lines 33-98      *)

EntryPrices == {R(0), R(100), R(5000)}
StopAtrs == {R(-1), R(0), Frac(1, 2), R(2), R(10), R(300)}
TrendStrengths == {R(0), Frac(2, 10), Frac(3, 10), Frac(5, 10), Frac(7, 10),
                   Frac(8, 10), R(1)}
StopSides == {"BUY", "SELL", "buy", "sell"}

\* str.upper() on the side strings in use
Upper(side) ==
    CASE side = "buy" -> "BUY"
      [] side = "sell" -> "SELL"
      [] OTHER -> side

\* <<stop_multiplier, profit_multiplier>> after the trend adjustment (lines 40-50)
TrendMultipliers(trend_strength) ==
    IF RGt(trend_strength, Frac(7, 10)) THEN <<R(3), R(6)>>
    ELSE IF RLt(trend_strength, Frac(3, 10)) THEN <<Frac(3, 2), R(3)>>
    ELSE <<R(2), R(4)>>

\* the high-volatility regime widening the stop without raising the target
VolatilityMultipliersFlatProfit(m, volatility_ratio) ==
    IF RGt(volatility_ratio, Frac(5, 100))
    THEN <<RMul(m[1], Frac(3, 2)), m[2]>>
    ELSE IF RLt(volatility_ratio, Frac(1, 100))
    THEN <<RMul(m[1], Frac(8, 10)), RMul(m[2], Frac(9, 10))>>
    ELSE m

\* ... and after the volatility adjustment (lines 52-60)
VolatilityMultipliers(m, volatility_ratio) ==
    IF RGt(volatility_ratio, Frac(5, 100))
    THEN <<RMul(m[1], Frac(3, 2)), RMul(m[2], Frac(12, 10))>>
    ELSE IF RLt(volatility_ratio, Frac(1, 100))
    THEN <<RMul(m[1], Frac(8, 10)), RMul(m[2], Frac(9, 10))>>
    ELSE m

\* max(min_stop_distance, min(stop_distance, max_stop_distance)) (lines 71-76, 84)
ClampStopDistance(stop_distance, entry_price) ==
    LET max_stop_distance == RMul(entry_price, Frac(5, 100))
        min_stop_distance == RMul(entry_price, Frac(5, 1000))
    IN  PyMax(min_stop_distance, PyMin(stop_distance, max_stop_distance))

\* the except branch: simple percentage stops (lines 94-98)
FallbackStops(entry_price, side) ==
    IF Upper(side) = "BUY"
    THEN <<RMul(entry_price, Frac(98, 100)), RMul(entry_price, Frac(104, 100))>>
    ELSE <<RMul(entry_price, Frac(102, 100)), RMul(entry_price, Frac(96, 100))>>

\* side compared with 'BUY' without upper()
AdaptiveLevelsCaseSensitive(entry_price, atr0, trend_strength, side) ==
    LET atr == IF RLe(atr0, R(0)) THEN RMul(entry_price, Frac(2, 100)) ELSE atr0
        m == VolatilityMultipliers(TrendMultipliers(trend_strength),
                                   RDiv(atr, entry_price))
        stop_distance == ClampStopDistance(RMul(m[1], atr), entry_price)
        profit_distance == RMul(stop_distance, RDiv(m[2], m[1]))
    IN  IF side = "BUY"
        THEN <<RSub(entry_price, stop_distance), RAdd(entry_price, profit_distance)>>
        ELSE <<RAdd(entry_price, stop_distance), RSub(entry_price, profit_distance)>>

\* the levels along the try branch, entry_price # 0 (lines 37-90)
AdaptiveLevels(entry_price, atr0, trend_strength, side) ==
    LET atr == IF RLe(atr0, R(0)) THEN RMul(entry_price, Frac(2, 100)) ELSE atr0
        m == VolatilityMultipliers(TrendMultipliers(trend_strength),
                                   RDiv(atr, entry_price))
        stop_multiplier == m[1]
        profit_multiplier == m[2]
    IN  IF Upper(side) = "BUY"
        THEN LET stop_loss == RSub(entry_price, RMul(stop_multiplier, atr))
                 stop_distance == ClampStopDistance(RSub(entry_price, stop_loss),
                                                    entry_price)
                 profit_distance == RMul(stop_distance,
                                         RDiv(profit_multiplier, stop_multiplier))
             IN  <<RSub(entry_price, stop_distance), RAdd(entry_price, profit_distance)>>
        ELSE LET stop_loss == RAdd(entry_price, RMul(stop_multiplier, atr))
                 stop_distance == ClampStopDistance(RSub(stop_loss, entry_price),
                                                    entry_price)
                 profit_distance == RMul(stop_distance,
                                         RDiv(profit_multiplier, stop_multiplier))
             IN  <<RAdd(entry_price, stop_distance), RSub(entry_price, profit_distance)>>

set_adaptive_stops(entry_price, atr, trend_strength, side) ==
    IF RZero(entry_price)
    THEN FallbackStops(entry_price, side)     \* atr / entry_price raises
    ELSE AdaptiveLevels(entry_price, atr, trend_strength, side)

SetAdaptiveStops ==
    /\ stops.result = None
    /\ stops' = [stops EXCEPT
                    !.result = set_adaptive_stops(stops.entry_price, stops.atr,
                                                  stops.trend_strength, stops.side)]

----------------------------------------------------------------------------
(* TradingStrategy signal generators: src/strategy.py, lines 108-613       *)
(*                                                                         *)
(* df is the frame a generator is called with: its length, whether it      *)
(* carries the indicator columns of calculate_indicators, and its last two *)
(* rows.  The indicator values are those the ta library computed for the   *)
(* bars; a generator that computes its own columns gets them as c.         *)

\* minimum history each generator asks for
MACD_MIN_BARS == 26
BOLLINGER_MIN_BARS == 20
MULTI_MIN_BARS == 26
SMA_MIN_BARS == 50
EMA_MIN_BARS == 26
MOMENTUM_MIN_BARS == 20
VOLUME_MIN_BARS == 20
STOCH_MIN_BARS == 14

StrategyNames ==
    {"rsi_strategy", "macd_strategy", "bollinger_strategy", "multi_indicator_strategy",
     "sma_crossover_strategy", "ema_strategy", "momentum_strategy",
     "volume_breakout_strategy", "stochastic_strategy"}

Lens == {0, 1, 13, 14, 19, 20, 25, 26, 49, 50}

\* <<previous rsi, latest rsi>>
RsiCases == {<<R(28), R(32)>>, <<R(20), R(35)>>, <<R(72), R(68)>>,
             <<R(50), R(50)>>, <<NaN, R(32)>>}

\* <<previous macd, previous macd_signal, latest macd, latest macd_signal>>
MacdCases == {<<Frac(-1, 2), R(0), Frac(1, 2), R(0)>>, <<R(-1), R(0), R(2), R(0)>>,
              <<Frac(1, 2), R(0), Frac(-1, 2), R(0)>>, <<R(1), R(0), R(1), R(0)>>,
              <<NaN, NaN, NaN, NaN>>}

\* <<previous close, latest close, bb_middle, band half-width>>
BollCases == {<<R(89), R(95), R(100), R(10)>>, <<R(89), R(105), R(100), R(10)>>,
              <<R(111), R(105), R(100), R(10)>>, <<R(111), R(95), R(100), R(10)>>,
              <<R(100), R(100), R(100), R(10)>>, <<R(100), R(100), NaN, NaN>>}

Volumes == {R(500000), R(2000000)}

\* <<previous sma_short, previous sma_long, latest sma_short, latest sma_long>>
SmaCases == {<<R(99), R(100), R(101), R(100)>>, <<R(101), R(100), R(99), R(100)>>,
             <<R(100), R(100), R(100), R(100)>>}

\* <<ema_fast, ema_slow>>
EmaCases == {<<R(90), R(80)>>, <<R(110), R(120)>>, <<R(100), R(100)>>}

\* <<roc, previous rsi, latest rsi>>
MomentumCases == {<<R(3), R(50), R(50)>>, <<R(15), R(50), R(50)>>, <<R(-3), R(50), R(50)>>,
                  <<R(0), R(50), R(50)>>, <<R(3), R(75), R(80)>>}

\* <<volume_sma, price_sma>>
VolumeCases == {<<R(1000000), R(90)>>, <<R(100000), R(90)>>, <<R(1000000), R(120)>>,
                <<R(1000000), R(100)>>}

\* <<previous stoch_k, previous stoch_d, latest stoch_k, latest stoch_d>>
StochCases == {<<R(10), R(12), R(15), R(13)>>, <<R(90), R(88), R(85), R(87)>>,
               <<R(50), R(50), R(50), R(50)>>}

\* a row of the frame calculate_indicators returns
Row(close, volume, rsi, macd, macd_signal, bb_middle, bb_dev) ==
    [close |-> close, volume |-> volume, rsi |-> rsi, macd |-> macd,
     macd_signal |-> macd_signal, bb_middle |-> bb_middle,
     bb_lower |-> RSub(bb_middle, bb_dev), bb_upper |-> RAdd(bb_middle, bb_dev),
     atr |-> R(2)]

\* a row of a frame that holds only the OHLCV columns
RawRow(close, volume) == [close |-> close, volume |-> volume]

\* a frame of n bars; added are the columns the generators have written to it
Frame(n, annotated, r, m, b, v) ==
    [len |-> n,
     annotated |-> annotated,
     added |-> {},
     latest |-> IF n < 1 THEN None
                ELSE IF annotated THEN Row(b[2], v, r[2], m[3], m[4], b[3], b[4])
                ELSE RawRow(b[2], v),
     previous |-> IF n < 2 THEN None
                  ELSE IF annotated THEN Row(b[1], v, r[1], m[1], m[2], b[3], b[4])
                  ELSE RawRow(b[1], v)]

Frames ==
    {Frame(n, TRUE, r, m, b, v) :
        n \in Lens, r \in RsiCases, m \in MacdCases, b \in BollCases, v \in Volumes}
    \cup
    {Frame(n, FALSE, <<>>, <<>>, b, v) :
        n \in Lens, b \in BollCases, v \in Volumes}

Signal(action, latest, strength) ==
    [action |-> action, price |-> latest.close, volume |-> latest.volume,
     signal_strength |-> strength]

\* the BUY strength taken from the latest rsi instead of the previous one
rsi_strategy_latest(d) ==
    IF d.len < config.rsi_period \/ d.len < 2 \/ ~d.annotated THEN None
    ELSE IF IsNaN(d.latest.rsi) \/ IsNaN(d.previous.rsi) THEN None
    ELSE IF /\ RLe(d.previous.rsi, config.rsi_oversold)
            /\ RGt(d.latest.rsi, config.rsi_oversold)
            /\ RGt(d.latest.volume, config.volume_threshold)
    THEN Signal("BUY", d.latest,
                PyMin(R(100), RMul(RSub(config.rsi_oversold, d.latest.rsi), R(2))))
    ELSE IF /\ RGe(d.previous.rsi, config.rsi_overbought)
            /\ RLt(d.latest.rsi, config.rsi_overbought)
    THEN Signal("SELL", d.latest,
                PyMin(R(100), RMul(RSub(d.previous.rsi, config.rsi_overbought), R(2))))
    ELSE None

rsi_strategy(d) ==
    IF d.len < config.rsi_period THEN None
    ELSE IF d.len < 2 \/ ~d.annotated THEN None       \* IndexError, KeyError
    ELSE LET current_rsi == d.latest.rsi
             previous_rsi == d.previous.rsi
         IN  IF IsNaN(current_rsi) \/ IsNaN(previous_rsi) THEN None
             ELSE IF /\ RLe(previous_rsi, config.rsi_oversold)
                     /\ RGt(current_rsi, config.rsi_oversold)
                     /\ RGt(d.latest.volume, config.volume_threshold)
             THEN Signal("BUY", d.latest,
                         PyMin(R(100), RMul(RSub(config.rsi_oversold, previous_rsi), R(2))))
             ELSE IF /\ RGe(previous_rsi, config.rsi_overbought)
                     /\ RLt(current_rsi, config.rsi_overbought)
             THEN Signal("SELL", d.latest,
                         PyMin(R(100), RMul(RSub(previous_rsi, config.rsi_overbought), R(2))))
             ELSE None

\* the volume filter applied to SELL as well
macd_strategy_gated(d) ==
    IF d.len < MACD_MIN_BARS \/ ~d.annotated THEN None
    ELSE IF IsNaN(d.latest.macd) \/ IsNaN(d.latest.macd_signal) THEN None
    ELSE IF ~RGt(d.latest.volume, config.volume_threshold) THEN None
    ELSE IF /\ RLe(d.previous.macd, d.previous.macd_signal)
            /\ RGt(d.latest.macd, d.latest.macd_signal)
    THEN Signal("BUY", d.latest,
                PyMin(R(100), RMul(RAbs(RSub(d.latest.macd, d.latest.macd_signal)), R(100))))
    ELSE IF /\ RGe(d.previous.macd, d.previous.macd_signal)
            /\ RLt(d.latest.macd, d.latest.macd_signal)
    THEN Signal("SELL", d.latest,
                PyMin(R(100), RMul(RAbs(RSub(d.latest.macd, d.latest.macd_signal)), R(100))))
    ELSE None

macd_strategy(d) ==
    IF d.len < MACD_MIN_BARS THEN None
    ELSE IF ~d.annotated THEN None                     \* KeyError
    ELSE LET current_macd == d.latest.macd
             current_signal == d.latest.macd_signal
             previous_macd == d.previous.macd
             previous_signal == d.previous.macd_signal
             strength == PyMin(R(100),
                               RMul(RAbs(RSub(current_macd, current_signal)), R(100)))
         IN  IF IsNaN(current_macd) \/ IsNaN(current_signal) THEN None
             ELSE IF /\ RLe(previous_macd, previous_signal)
                     /\ RGt(current_macd, current_signal)
                     /\ RGt(d.latest.volume, config.volume_threshold)
             THEN Signal("BUY", d.latest, strength)
             ELSE IF /\ RGe(previous_macd, previous_signal)
                     /\ RLt(current_macd, current_signal)
             THEN Signal("SELL", d.latest, strength)
             ELSE None

bollinger_strategy(d) ==
    IF d.len < BOLLINGER_MIN_BARS THEN None
    ELSE IF ~d.annotated THEN None                     \* KeyError
    ELSE LET current_price == d.latest.close
             previous_price == d.previous.close
             bb_upper == d.latest.bb_upper
             bb_lower == d.latest.bb_lower
             bb_middle == d.latest.bb_middle
         IN  IF IsNaN(bb_upper) \/ IsNaN(bb_lower) \/ IsNaN(bb_middle) THEN None
             ELSE IF /\ RLe(previous_price, bb_lower)
                     /\ RGt(current_price, bb_lower)
                     /\ RGt(d.latest.volume, config.volume_threshold)
             THEN Signal("BUY", d.latest,
                         PyMin(R(100), RMul(RDiv(RSub(bb_middle, current_price),
                                                 RSub(bb_middle, bb_lower)), R(100))))
             ELSE IF /\ RGe(previous_price, bb_upper)
                     /\ RLt(current_price, bb_upper)
             THEN Signal("SELL", d.latest,
                         PyMin(R(100), RMul(RDiv(RSub(current_price, bb_middle),
                                                 RSub(bb_upper, bb_middle)), R(100))))
             ELSE None

\* one agreeing indicator is taken as enough
multi_indicator_strategy_any(d) ==
    IF d.len < MULTI_MIN_BARS THEN None
    ELSE LET signals == <<rsi_strategy(d), macd_strategy(d), bollinger_strategy(d)>>
             IsBuy(x) == x # None /\ x.action = "BUY"
             IsSell(x) == x # None /\ x.action = "SELL"
             buys == SelectSeq(signals, IsBuy)
             sells == SelectSeq(signals, IsSell)
             Strengths(xs) == [i \in 1..Len(xs) |-> xs[i].signal_strength]
         IN  IF Len(buys) >= 1
             THEN [action |-> "BUY", price |-> d.latest.close, volume |-> d.latest.volume,
                   signal_strength |-> Mean(Strengths(buys)),
                   indicators_count |-> Len(buys)]
             ELSE IF Len(sells) >= 1
             THEN [action |-> "SELL", price |-> d.latest.close, volume |-> d.latest.volume,
                   signal_strength |-> Mean(Strengths(sells)),
                   indicators_count |-> Len(sells)]
             ELSE None

multi_indicator_strategy(d) ==
    IF d.len < MULTI_MIN_BARS THEN None
    ELSE LET signals == <<rsi_strategy(d), macd_strategy(d), bollinger_strategy(d)>>
             IsBuy(x) == x # None /\ x.action = "BUY"
             IsSell(x) == x # None /\ x.action = "SELL"
             buys == SelectSeq(signals, IsBuy)
             sells == SelectSeq(signals, IsSell)
             Strengths(xs) == [i \in 1..Len(xs) |-> xs[i].signal_strength]
         IN  IF Len(buys) >= 2
             THEN [action |-> "BUY", price |-> d.latest.close, volume |-> d.latest.volume,
                   signal_strength |-> Mean(Strengths(buys)),
                   indicators_count |-> Len(buys)]
             ELSE IF Len(sells) >= 2
             THEN [action |-> "SELL", price |-> d.latest.close, volume |-> d.latest.volume,
                   signal_strength |-> Mean(Strengths(sells)),
                   indicators_count |-> Len(sells)]
             ELSE None

\* the guard asks for the 30 bars of the long SMA only
sma_crossover_strategy_30(d, c) ==
    IF d.len < 30 THEN None
    ELSE IF RLe(c[1], c[2]) /\ RGt(c[3], c[4])
    THEN Signal("BUY", d.latest,
                PyMin(R(100), RMul(RDiv(RSub(c[3], c[4]), c[4]), R(100))))
    ELSE IF RGe(c[1], c[2]) /\ RLt(c[3], c[4])
    THEN Signal("SELL", d.latest,
                PyMin(R(100), RMul(RDiv(RSub(c[4], c[3]), c[3]), R(100))))
    ELSE None

\* c = <<prev_short, prev_long, current_short, current_long>>: the 10- and 30-bar SMAs
sma_crossover_strategy(d, c) ==
    IF d.len < SMA_MIN_BARS THEN None
    ELSE IF RLe(c[1], c[2]) /\ RGt(c[3], c[4])
    THEN Signal("BUY", d.latest,
                PyMin(R(100), RMul(RDiv(RSub(c[3], c[4]), c[4]), R(100))))
    ELSE IF RGe(c[1], c[2]) /\ RLt(c[3], c[4])
    THEN Signal("SELL", d.latest,
                PyMin(R(100), RMul(RDiv(RSub(c[4], c[3]), c[3]), R(100))))
    ELSE None

\* c = <<ema_fast, ema_slow>>: the 12- and 26-bar EMAs at the latest bar
ema_strategy(d, c) ==
    IF d.len < EMA_MIN_BARS THEN None
    ELSE LET current_price == d.latest.close
         IN  IF RGt(current_price, c[1]) /\ RGt(c[1], c[2])
             THEN Signal("BUY", d.latest,
                         PyMin(R(100), RMul(RDiv(RSub(current_price, c[1]), c[1]), R(100))))
             ELSE IF RLt(current_price, c[1]) /\ RLt(c[1], c[2])
             THEN Signal("SELL", d.latest,
                         PyMin(R(100), RMul(RDiv(RSub(c[1], current_price), current_price),
                                            R(100))))
             ELSE None

\* c = <<roc, previous rsi, latest rsi>>: 10-bar ROC and 14-bar RSI
momentum_strategy(d, c) ==
    IF d.len < MOMENTUM_MIN_BARS THEN None
    ELSE IF RGt(c[1], R(2)) /\ RLt(c[3], R(70))
    THEN Signal("BUY", d.latest, PyMin(R(100), RMul(c[1], R(10))))
    ELSE IF RLt(c[1], R(-2)) /\ RGt(c[3], R(30))
    THEN Signal("SELL", d.latest, PyMin(R(100), RMul(RAbs(c[1]), R(10))))
    ELSE None

\* c = <<volume_sma, price_sma>>: the 20-bar means of volume and close
volume_breakout_strategy(d, c) ==
    IF d.len < VOLUME_MIN_BARS THEN None
    ELSE LET current_price == d.latest.close
             current_volume == d.latest.volume
             strength == PyMin(R(100), RMul(RSub(RDiv(current_volume, c[1]), R(1)), R(50)))
         IN  IF /\ RGt(current_volume, RMul(Frac(3, 2), c[1]))
                /\ RGt(current_price, RMul(c[2], Frac(102, 100)))
             THEN Signal("BUY", d.latest, strength)
             ELSE IF /\ RGt(current_volume, RMul(Frac(3, 2), c[1]))
                     /\ RLt(current_price, RMul(c[2], Frac(98, 100)))
             THEN Signal("SELL", d.latest, strength)
             ELSE None

\* c = <<prev_k, prev_d, current_k, current_d>>: the 14-bar stochastic oscillator
stochastic_strategy(d, c) ==
    IF d.len < STOCH_MIN_BARS THEN None
    ELSE IF RGt(c[3], c[4]) /\ RLe(c[1], c[2]) /\ RLt(c[3], R(20))
    THEN Signal("BUY", d.latest, PyMin(R(100), RMul(RSub(R(20), c[3]), R(5))))
    ELSE IF RLt(c[3], c[4]) /\ RGe(c[1], c[2]) /\ RGt(c[3], R(80))
    THEN Signal("SELL", d.latest, PyMin(R(100), RMul(RSub(c[3], R(80)), R(5))))
    ELSE None

UNKNOWN_STRATEGY == "unknown_strategy"

\* the columns a self-computing generator needs from the ta library
ComputedCases(name) ==
    CASE name = "sma_crossover_strategy" -> SmaCases
      [] name = "ema_strategy" -> EmaCases
      [] name = "momentum_strategy" -> MomentumCases
      [] name = "volume_breakout_strategy" -> VolumeCases
      [] name = "stochastic_strategy" -> StochCases
      [] OTHER -> {<<>>}

\* the if/elif chain of generate_signal (lines 575-595)
Dispatch(name, d, c) ==
    CASE name = "rsi_strategy" -> rsi_strategy(d)
      [] name = "macd_strategy" -> macd_strategy(d)
      [] name = "bollinger_strategy" -> bollinger_strategy(d)
      [] name = "multi_indicator_strategy" -> multi_indicator_strategy(d)
      [] name = "sma_crossover_strategy" -> sma_crossover_strategy(d, c)
      [] name = "ema_strategy" -> ema_strategy(d, c)
      [] name = "momentum_strategy" -> momentum_strategy(d, c)
      [] name = "volume_breakout_strategy" -> volume_breakout_strategy(d, c)
      [] name = "stochastic_strategy" -> stochastic_strategy(d, c)
      [] OTHER -> rsi_strategy(d)

\* the columns a generator assigns on the frame it was given, once past its guard
AddedColumns(name, d) ==
    CASE name = "sma_crossover_strategy" /\ d.len >= SMA_MIN_BARS -> {"sma_short", "sma_long"}
      [] name = "ema_strategy" /\ d.len >= EMA_MIN_BARS -> {"ema_fast", "ema_slow"}
      [] name = "momentum_strategy" /\ d.len >= MOMENTUM_MIN_BARS -> {"roc", "rsi"}
      [] name = "volume_breakout_strategy" /\ d.len >= VOLUME_MIN_BARS ->
             {"volume_sma", "price_sma"}
      [] name = "stochastic_strategy" /\ d.len >= STOCH_MIN_BARS -> {"stoch_k", "stoch_d"}
      [] OTHER -> {}

\* the frame after generator name has run on it: momentum_strategy overwrites rsi
Mutated(name, d, c) ==
    LET withCols == [d EXCEPT !.added = @ \cup AddedColumns(name, d)]
    IN  IF name = "momentum_strategy" /\ d.len >= MOMENTUM_MIN_BARS /\ d.annotated
        THEN [withCols EXCEPT !.latest.rsi = c[3], !.previous.rsi = c[2]]
        ELSE withCols

\* data_with_indicators.iloc[-1].get('atr', 0)
LatestAtr(d) == IF d.annotated THEN d.latest.atr ELSE R(0)

generate_signal(d, c, symbol, exchange) ==
    LET signal == Dispatch(config.strategy_name, d, c)
    IN  IF signal = None THEN None
        ELSE [action |-> signal.action, price |-> signal.price,
              signal_strength |-> signal.signal_strength,
              symbol |-> symbol, exchange |-> exchange,
              strategy |-> config.strategy_name,
              quantity |-> calculate_position_size(signal.price, LatestAtr(d), None)]

otherThanSignals == <<trackerVars, sizingVars, stopVars, barVars, metricVars, riskVars,
     backtestVars>>

\* a direct call of generator name on df
CallGenerator(name) ==
    /\ sig.called = "none"
    /\ \E c \in ComputedCases(name) :
          /\ sig' = [called |-> name, c |-> c, result |-> Dispatch(name, df, c)]
          /\ df' = Mutated(name, df, c)
    /\ UNCHANGED otherThanSignals

RsiStrategy == CallGenerator("rsi_strategy")
MacdStrategy == CallGenerator("macd_strategy")
BollingerStrategy == CallGenerator("bollinger_strategy")
MultiIndicatorStrategy == CallGenerator("multi_indicator_strategy")
SmaCrossoverStrategy == CallGenerator("sma_crossover_strategy")
EmaStrategy == CallGenerator("ema_strategy")
MomentumStrategy == CallGenerator("momentum_strategy")
VolumeBreakoutStrategy == CallGenerator("volume_breakout_strategy")
StochasticStrategy == CallGenerator("stochastic_strategy")

\* lines 773-788: only rsi_strategy has parameters to check, three more names are
\* accepted as they are, and every other name falls through to return False
validate_strategy_config ==
    IF config.strategy_name = "rsi_strategy"
    THEN /\ config.rsi_period > 0
         /\ RLt(R(0), config.rsi_oversold)
         /\ RLt(config.rsi_oversold, config.rsi_overbought)
         /\ RLt(config.rsi_overbought, R(100))
    ELSE config.strategy_name \in {"macd_strategy", "bollinger_strategy",
                                   "multi_indicator_strategy"}

ValidateStrategyConfig ==
    /\ sig.called = "none"
    /\ sig' = [called |-> "validate_strategy_config", c |-> <<>>,
               result |-> <<validate_strategy_config>>]
    /\ UNCHANGED df
    /\ UNCHANGED otherThanSignals

\* generate_signal works on the copy calculate_indicators returns; when
\* calculate_indicators fails it returns df itself, which the generator then writes to
GenerateSignal ==
    /\ sig.called = "none"
    /\ \E c \in ComputedCases(config.strategy_name), s \in Symbols, e \in Exchanges :
          /\ sig' = [called |-> "generate_signal", c |-> c,
                     result |-> generate_signal(df, c, s, e)]
          /\ df' = IF df.annotated THEN df ELSE Mutated(config.strategy_name, df, c)
    /\ UNCHANGED otherThanSignals

----------------------------------------------------------------------------
(* MetricsCalculator: src/utils/metrics_calculator.py                      *)
(*                                                                         *)
(* A pandas Series of numbers holds numpy float64: a division by zero      *)
(* gives inf, -inf or NaN (with a RuntimeWarning) and does not raise.      *)
(* Inf is <<1, 0>> and -Inf is <<-1, 0>>.                                   *)

MaxCurve == 3          \* bound on len(portfolio_values)

PosInf == <<1, 0>>
NegInf == <<-1, 0>>

IsFinite(x) == x[2] # 0

\* numpy float64 x / y
NpDiv(x, y) ==
    IF x = NaN \/ y = NaN THEN NaN
    ELSE IF ~IsFinite(y) THEN (IF IsFinite(x) THEN R(0) ELSE NaN)
    ELSE IF ~IsFinite(x) THEN (IF y[1] = 0 THEN x ELSE <<x[1] * (IF y[1] < 0 THEN -1 ELSE 1), 0>>)
    ELSE IF y[1] = 0
         THEN (IF x[1] = 0 THEN NaN ELSE IF x[1] > 0 THEN PosInf ELSE NegInf)
    ELSE RDiv(x, y)

\* numpy float64 x * k and x - k for a finite k > 0
NpScale(x, k) == IF IsFinite(x) THEN RMul(x, k) ELSE x
NpMinus(x, k) == IF IsFinite(x) THEN RSub(x, k) ELSE x

EquityValues == {R(0), R(90), R(100)}
BenchmarkValues == {R(100), R(110)}

Curves == SeqsUpTo(EquityValues, MaxCurve)
\* an optional argument is None or the one-tuple of its value
Benchmarks ==
    {None} \cup {<<bv>> : bv \in {b \in SeqsUpTo(BenchmarkValues, MaxCurve) :
                                    Len(b) = 0 \/ Len(b) >= MaxCurve - 1}}

\* portfolio_values.expanding().max()
RECURSIVE RunningMax(_)
RunningMax(pv) ==
    IF Len(pv) <= 1 THEN pv
    ELSE LET head == RunningMax(SubSeq(pv, 1, Len(pv) - 1))
         IN  Append(head, PyMax(head[Len(head)], pv[Len(pv)]))

\* (portfolio_values - running_max) / running_max * 100
Drawdown(pv) ==
    LET running_max == RunningMax(pv)
    IN  [i \in 1..Len(pv) |->
            NpScale(NpDiv(RSub(pv[i], running_max[i]), running_max[i]), R(100))]

\* Series.min(): NaN entries are skipped, NaN when nothing is left
RECURSIVE SeriesMin(_)
SeriesMin(xs) ==
    IF xs = <<>> THEN NaN
    ELSE LET rest == SeriesMin(Tail(xs))
         IN  IF xs[1] = NaN THEN rest
             ELSE IF rest = NaN THEN xs[1]
             ELSE PyMin(xs[1], rest)

\* drawdown.min() with the 0.0 of drawdown as it is
calculate_max_drawdown_floor(pv) == PyMin(R(-1), SeriesMin(Drawdown(pv)))

calculate_max_drawdown(pv) == SeriesMin(Drawdown(pv))

\* the loop of calculate_drawdown_periods over drawdown[i..], with its three locals
RECURSIVE DrawdownLoop(_, _, _, _, _)
DrawdownLoop(drawdown, i, periods, current_period, in_drawdown) ==
    IF i > Len(drawdown)
    THEN (IF in_drawdown THEN Append(periods, current_period) ELSE periods)
    ELSE IF RLt(drawdown[i], R(0))
    THEN DrawdownLoop(drawdown, i + 1, periods,
                      IF in_drawdown THEN current_period + 1 ELSE 1, TRUE)
    ELSE IF in_drawdown
    THEN DrawdownLoop(drawdown, i + 1, Append(periods, current_period), 0, FALSE)
    ELSE DrawdownLoop(drawdown, i + 1, periods, current_period, in_drawdown)

\* the loop without the run that is still open at the end of the series
calculate_drawdown_periods_closed(drawdown) ==
    LET periods == DrawdownLoop(drawdown, 1, <<>>, 0, FALSE)
    IN  IF drawdown # <<>> /\ RLt(drawdown[Len(drawdown)], R(0))
        THEN SubSeq(periods, 1, Len(periods) - 1)
        ELSE periods

calculate_drawdown_periods(drawdown) == DrawdownLoop(drawdown, 1, <<>>, 0, FALSE)

RECURSIVE IntMax(_)
IntMax(xs) == IF Len(xs) = 1 THEN xs[1]
              ELSE LET m == IntMax(Tail(xs)) IN IF m > xs[1] THEN m ELSE xs[1]

RECURSIVE IntSum(_)
IntSum(xs) == IF xs = <<>> THEN 0 ELSE xs[1] + IntSum(Tail(xs))

IsNegativeValue(x) == RLt(x, R(0))

calculate_drawdown_metrics(pv) ==
    IF Len(pv) < 2 THEN <<>>
    ELSE LET drawdown == Drawdown(pv)
             negative_drawdowns == SelectSeq(drawdown, IsNegativeValue)
             drawdown_periods == calculate_drawdown_periods(drawdown)
         IN  [k \in {"Max. Drawdown [%]", "Avg. Drawdown [%]", "Max. Drawdown Duration",
                     "Avg. Drawdown Duration"} |->
                CASE k = "Max. Drawdown [%]" -> SeriesMin(drawdown)
                  [] k = "Avg. Drawdown [%]" ->
                        IF Len(negative_drawdowns) > 0 THEN Mean(negative_drawdowns) ELSE R(0)
                  [] k = "Max. Drawdown Duration" ->
                        IF drawdown_periods # <<>> THEN R(IntMax(drawdown_periods)) ELSE R(0)
                  [] k = "Avg. Drawdown Duration" ->
                        IF drawdown_periods # <<>>
                        THEN Frac(IntSum(drawdown_periods), Len(drawdown_periods))
                        ELSE R(0)]

\* a finite float the model does not compute (a power or a square root); where it
\* stands for a standard deviation it is positive
SomeFloat == <<1, 1, 1>>

\* a / b where a or b may be SomeFloat; b = SomeFloat is positive
FDiv(a, b) ==
    IF a = NaN \/ b = NaN THEN NaN
    ELSE IF a = SomeFloat \/ b = SomeFloat
         THEN (IF a # SomeFloat /\ ~IsFinite(a) THEN a
               ELSE IF a = R(0) THEN R(0)
               ELSE SomeFloat)
    ELSE NpDiv(a, b)

\* a - k for a finite k
FMinus(a, k) == IF a = SomeFloat THEN SomeFloat ELSE NpMinus(a, k)

\* dict.update
Update(m1, m2) ==
    IF DOMAIN m2 = {} THEN m1
    ELSE IF DOMAIN m1 = {} THEN m2
    ELSE [k \in DOMAIN m1 \cup DOMAIN m2 |-> IF k \in DOMAIN m2 THEN m2[k] ELSE m1[k]]

IsNotNaN(x) == x # NaN

\* portfolio_values.pct_change().dropna()
pct_change(pv) ==
    IF Len(pv) < 2 THEN <<>>
    ELSE SelectSeq([i \in 1..(Len(pv) - 1) |-> NpMinus(NpDiv(pv[i + 1], pv[i]), R(1))],
                   IsNotNaN)

\* Series.std() (ddof = 1): NaN for fewer than two values or when one is infinite
Std(xs) ==
    IF Len(xs) < 2 \/ \E i \in 1..Len(xs) : ~IsFinite(xs[i]) THEN NaN
    ELSE LET mean == Mean(xs)
             squares == [i \in 1..Len(xs) |-> RMul(RSub(xs[i], mean), RSub(xs[i], mean))]
         IN  IF RZero(RSum(squares)) THEN R(0) ELSE SomeFloat

\* (pow(final / initial, 1 / years) - 1) * 100 if years > 0 else 0
AnnualizedReturn(pv, n) ==
    IF n = 0 THEN R(0)
    ELSE LET base == NpDiv(pv[Len(pv)], pv[1])
         IN  IF ~IsFinite(base) THEN base
             ELSE IF base = R(0) THEN R(-100)
             ELSE IF base = R(1) THEN R(0)
             ELSE SomeFloat

\* Start and End are 'N/A' for a series without dates and are left out
calculate_basic_metrics(pv) ==
    IF Len(pv) < 2 THEN <<>>
    ELSE LET initial_value == pv[1]
             final_value == pv[Len(pv)]
         IN  [k \in {"Duration", "Equity Final [$]", "Equity Peak [$]", "Return [%]"} |->
                CASE k = "Duration" -> R(Len(pv))
                  [] k = "Equity Final [$]" -> final_value
                  [] k = "Equity Peak [$]" -> RunningMax(pv)[Len(pv)]
                  [] k = "Return [%]" ->
                        NpScale(NpDiv(RSub(final_value, initial_value), initial_value),
                                R(100))]

calculate_return_metrics(pv) ==
    LET returns == pct_change(pv)
    IN  IF Len(pv) < 2 \/ Len(returns) = 0 THEN <<>>
        ELSE LET annualized_return == AnnualizedReturn(pv, Len(returns))
             IN  [k \in {"Return (Ann.) [%]", "Volatility (Ann.) [%]", "CAGR [%]"} |->
                    IF k = "Volatility (Ann.) [%]" THEN Std(returns) ELSE annualized_return]

risk_free_rate == Frac(2, 100)

calculate_risk_metrics(pv) ==
    LET returns == pct_change(pv)
    IN  IF Len(pv) < 2 \/ Len(returns) = 0 THEN <<>>
        ELSE LET annualized_return == AnnualizedReturn(pv, Len(returns))
                 volatility == Std(returns)
                 excess_return == FMinus(annualized_return, RMul(risk_free_rate, R(100)))
                 sharpe_ratio == IF volatility = SomeFloat
                                 THEN FDiv(excess_return, volatility) ELSE R(0)
                 downside_returns == SelectSeq(returns, IsNegativeValue)
                 downside_deviation == Std(downside_returns)
                 sortino_ratio ==
                     IF Len(downside_returns) > 0 /\ downside_deviation = SomeFloat
                     THEN FDiv(excess_return, downside_deviation) ELSE R(0)
                 max_drawdown == calculate_max_drawdown(pv)
                 calmar_ratio == IF max_drawdown # R(0)
                                 THEN FDiv(annualized_return, RAbs(max_drawdown)) ELSE R(0)
             IN  [k \in {"Sharpe Ratio", "Sortino Ratio", "Calmar Ratio"} |->
                    CASE k = "Sharpe Ratio" -> sharpe_ratio
                      [] k = "Sortino Ratio" -> sortino_ratio
                      [] k = "Calmar Ratio" -> calmar_ratio]

\* np.cov(x, y)[0, 1] (ddof = 1)
Cov(xs, ys) ==
    IF Len(xs) < 2 \/ \E i \in 1..Len(xs) : ~IsFinite(xs[i]) \/ ~IsFinite(ys[i]) THEN NaN
    ELSE LET mx == Mean(xs)
             my == Mean(ys)
         IN  RDiv(RSum([i \in 1..Len(xs) |-> RMul(RSub(xs[i], mx), RSub(ys[i], my))]),
                  R(Len(xs) - 1))

\* np.var(x) (ddof = 0)
Var(xs) ==
    IF Len(xs) = 0 \/ \E i \in 1..Len(xs) : ~IsFinite(xs[i]) THEN NaN
    ELSE LET mx == Mean(xs)
         IN  RDiv(RSum([i \in 1..Len(xs) |-> RMul(RSub(xs[i], mx), RSub(xs[i], mx))]),
                  R(Len(xs)))

calculate_benchmark_metrics(pv, bv) ==
    IF Len(pv) # Len(bv) \/ Len(bv) = 0 THEN <<>>             \* IndexError on iloc[-1]
    ELSE LET benchmark_return == NpScale(NpMinus(NpDiv(bv[Len(bv)], bv[1]), R(1)), R(100))
             portfolio_returns == pct_change(pv)
             benchmark_returns == pct_change(bv)
         IN  IF Len(portfolio_returns) # Len(benchmark_returns) THEN <<>>
             ELSE LET covariance == Cov(portfolio_returns, benchmark_returns)
                      benchmark_variance == Var(benchmark_returns)
                      beta == IF benchmark_variance # R(0)
                              THEN NpDiv(covariance, benchmark_variance) ELSE R(0)
                      p == AnnualizedReturn(pv, Len(portfolio_returns))
                      b == AnnualizedReturn(bv, Len(portfolio_returns))
                      alpha == IF NaN \in {p, b, beta} THEN NaN
                               ELSE IF p # SomeFloat /\ ~IsFinite(p) THEN p
                               ELSE IF SomeFloat \in {p, b} THEN SomeFloat
                               ELSE RSub(p, RAdd(R(2), RMul(beta, RSub(b, R(2)))))
                  IN  [k \in {"Buy & Hold Return [%]", "Alpha [%]", "Beta"} |->
                         CASE k = "Buy & Hold Return [%]" -> benchmark_return
                           [] k = "Alpha [%]" -> alpha
                           [] k = "Beta" -> beta]

\* the trade dicts handed to the calculator: a winner, a loser and one still open
WonTrade == [entry_price |-> R(100), exit_price |-> R(110), quantity |-> R(1), side |-> "buy"]
LostTrade == [entry_price |-> R(100), exit_price |-> R(90), quantity |-> R(1), side |-> "buy"]
OpenTrade == [entry_price |-> R(100), exit_price |-> None, quantity |-> R(1), side |-> "sell"]

TradeLists ==
    {None} \cup
    {<<ts>> : ts \in {<<>>, <<WonTrade>>, <<OpenTrade>>, <<WonTrade, LostTrade>>,
                      <<LostTrade, OpenTrade>>}}

TradeMetricKeys ==
    {"# Trades", "Win Rate [%]", "Best Trade [%]", "Worst Trade [%]", "Avg. Trade [%]",
     "Max. Trade Duration", "Avg. Trade Duration", "Profit Factor", "Expectancy [%]",
     "Net Profit [$]"}

IsCompleted(t) == t.exit_price # None

TradePnl(t) ==
    IF t.side = "buy" THEN RMul(RSub(t.exit_price, t.entry_price), t.quantity)
    ELSE RMul(RSub(t.entry_price, t.exit_price), t.quantity)

HasPercentage(t) == RGt(t.entry_price, R(0)) /\ RGt(t.quantity, R(0))

RECURSIVE SeqMin(_)
SeqMin(xs) == IF Len(xs) = 1 THEN xs[1] ELSE PyMin(xs[1], SeqMin(Tail(xs)))

RECURSIVE SeqMax(_)
SeqMax(xs) == IF Len(xs) = 1 THEN xs[1] ELSE PyMax(xs[1], SeqMax(Tail(xs)))

calculate_trade_metrics(ts) ==
    LET completed_trades == SelectSeq(ts, IsCompleted)
    IN  IF ts = <<>> \/ completed_trades = <<>> THEN [k \in TradeMetricKeys |-> R(0)]
        ELSE LET pnl_values == [i \in 1..Len(completed_trades) |->
                                   TradePnl(completed_trades[i])]
                 withPct == SelectSeq(completed_trades, HasPercentage)
                 pnl_percentages ==
                     [i \in 1..Len(withPct) |->
                         RMul(RDiv(TradePnl(withPct[i]),
                                   RMul(withPct[i].entry_price, withPct[i].quantity)), R(100))]
                 total_trades == Len(completed_trades)
                 winning_trades == SelectSeq(pnl_values, IsPositive)
                 losing_trades == SelectSeq(pnl_values, IsNegative)
                 win_rate == IF total_trades > 0
                             THEN RMul(Frac(Len(winning_trades), total_trades), R(100))
                             ELSE R(0)
                 avg_trade == IF pnl_percentages # <<>> THEN Mean(pnl_percentages) ELSE R(0)
                 gross_profit == RSum(winning_trades)
                 gross_loss == RAbs(RSum(losing_trades))
                 profit_factor == IF RGt(gross_loss, R(0)) THEN RDiv(gross_profit, gross_loss)
                                  ELSE IF RGt(gross_profit, R(0)) THEN PosInf ELSE R(0)
             IN  [k \in TradeMetricKeys |->
                    CASE k = "# Trades" -> R(total_trades)
                      [] k = "Win Rate [%]" -> win_rate
                      [] k = "Best Trade [%]" ->
                            IF pnl_percentages # <<>> THEN SeqMax(pnl_percentages) ELSE R(0)
                      [] k = "Worst Trade [%]" ->
                            IF pnl_percentages # <<>> THEN SeqMin(pnl_percentages) ELSE R(0)
                      [] k = "Avg. Trade [%]" -> avg_trade
                      [] k = "Max. Trade Duration" -> R(0)
                      [] k = "Avg. Trade Duration" -> R(0)
                      [] k = "Profit Factor" ->
                            IF profit_factor # PosInf THEN profit_factor
                            ELSE Frac(99999, 100)
                      [] k = "Expectancy [%]" -> avg_trade
                      [] k = "Net Profit [$]" -> RSum(pnl_values)]

calculate_all_metrics(pv, bv, ts) ==
    LET basic == calculate_basic_metrics(pv)
        returns == Update(basic, calculate_return_metrics(pv))
        ratios == Update(returns, calculate_risk_metrics(pv))
        drawdown == Update(ratios, calculate_drawdown_metrics(pv))
        benchmark == IF bv # None
                     THEN Update(drawdown, calculate_benchmark_metrics(pv, bv[1]))
                     ELSE drawdown
    IN  IF ts # None THEN Update(benchmark, calculate_trade_metrics(ts[1])) ELSE benchmark

otherThanMetrics == <<trackerVars, sizingVars, signalVars, stopVars, barVars, riskVars,
     backtestVars>>

CalculateAllMetrics ==
    /\ "calculate_all_metrics" \notin metrics.called
    /\ metrics' = [metrics EXCEPT
                      !.called = @ \cup {"calculate_all_metrics"},
                      !.result = calculate_all_metrics(metrics.portfolio_values,
                                                       metrics.benchmark_values,
                                                       metrics.trades)]
    /\ UNCHANGED otherThanMetrics

CalculateMaxDrawdown ==
    /\ "calculate_max_drawdown" \notin metrics.called
    /\ metrics' = [metrics EXCEPT
                      !.called = @ \cup {"calculate_max_drawdown"},
                      !.max_drawdown = calculate_max_drawdown(metrics.portfolio_values)]
    /\ UNCHANGED otherThanMetrics

\* direct calls of the two drawdown methods; the drawdown series handed to
\* calculate_drawdown_periods is the one calculate_drawdown_metrics builds
CalculateDrawdownPeriods ==
    /\ "calculate_drawdown_periods" \notin metrics.called
    /\ metrics' = [metrics EXCEPT
                      !.called = @ \cup {"calculate_drawdown_periods"},
                      !.drawdown_periods =
                          <<calculate_drawdown_periods(Drawdown(metrics.portfolio_values))>>]
    /\ UNCHANGED otherThanMetrics

CalculateDrawdownMetrics ==
    /\ "calculate_drawdown_metrics" \notin metrics.called
    /\ metrics' = [metrics EXCEPT
                      !.called = @ \cup {"calculate_drawdown_metrics"},
                      !.result = calculate_drawdown_metrics(metrics.portfolio_values)]
    /\ UNCHANGED otherThanMetrics

----------------------------------------------------------------------------
(* RiskManager trade validation: src/utils/risk_manager.py, lines 163-408  *)

MaxOpen == 2           \* bound on len(self.open_positions)

max_portfolio_risk == Frac(6, 100)
max_position_size == Frac(1, 10)
max_correlation == Frac(7, 10)

\* self.config.get('backtest', {}).get('initial_capital', 10000)
risk_account_balance == R(10000)

\* an open position; attrs tells whether stop_loss, entry_price, side, quantity and
\* symbol are attributes of it (hasattr) or it is a mapping that holds them as keys
RiskPosition(symbol, side, entry_price, stop_loss, quantity, attrs) ==
    [symbol |-> symbol, side |-> side, entry_price |-> entry_price,
     stop_loss |-> stop_loss, quantity |-> quantity, attrs |-> attrs]

RiskPositions ==
    {RiskPosition("BTC/USDT", "buy", R(100), R(95), R(70), TRUE),
     RiskPosition("ETH/USDT", "SELL", R(100), R(105), R(70), TRUE),
     RiskPosition("BTC/USDT", "buy", R(100), R(95), R(70), FALSE),
     RiskPosition("BTC/USDT", "buy", R(100), R(110), R(50), TRUE),
     RiskPosition("BTC/USDT", "buy", R(100), None, R(70), TRUE)}

Proposals ==
    [symbol : {"BTC/USDT", "SOL/USDT", "SOL/EUR"},
     side : {"BUY", "sell"},
     quantity : {R(1), R(20), R(60), None},
     price : {R(100)},
     stop_loss : {R(95), R(105)},
     take_profit : {R(110), R(105), R(90)}]

\* risk_per_share * position.quantity of a position that has the attributes
PositionRisk(position) ==
    IF Upper(position.side) = "BUY"
    THEN RMul(RSub(position.entry_price, position.stop_loss), position.quantity)
    ELSE RMul(RSub(position.stop_loss, position.entry_price), position.quantity)

\* entry_price - stop_loss with stop_loss None: TypeError inside the loop
HeatRaises(ps) == \E i \in 1..Len(ps) : ps[i].attrs /\ ps[i].stop_loss = None

CountsForHeat(position) == position.attrs

check_portfolio_heat(ps, new_trade_risk) ==
    IF HeatRaises(ps) THEN TRUE              \* except: return True
    ELSE LET counted == SelectSeq(ps, CountsForHeat)
             total_risk == RAdd(new_trade_risk,
                                RSum([i \in 1..Len(counted) |-> PositionRisk(counted[i])]))
             max_risk_amount == RMul(risk_account_balance, max_portfolio_risk)
         IN  RLe(total_risk, max_risk_amount)

\* symbol.split('/')[0] and symbol.split('/')[1]
BaseOf(symbol) ==
    CASE symbol = "BTC/USDT" -> "BTC"
      [] symbol = "ETH/USDT" -> "ETH"
      [] OTHER -> "SOL"

QuoteOf(symbol) == IF symbol = "SOL/EUR" THEN "EUR" ELSE "USDT"

high_corr_pairs ==
    {<<"BTC", "ETH">>, <<"ETH", "BTC">>, <<"BTC", "LTC">>, <<"LTC", "BTC">>,
     <<"ETH", "ETC">>, <<"ETC", "ETH">>}

calculate_position_correlation(symbol1, symbol2) ==
    IF symbol1 = symbol2 THEN R(1)
    ELSE IF <<BaseOf(symbol1), BaseOf(symbol2)>> \in high_corr_pairs THEN Frac(8, 10)
    ELSE IF QuoteOf(symbol1) = QuoteOf(symbol2) THEN Frac(4, 10)
    ELSE Frac(1, 10)

\* position.symbol, or the symbol part of the position key exchange_symbol_side
check_position_correlation(new_symbol, ps) ==
    \A i \in 1..Len(ps) :
        ~RGt(calculate_position_correlation(new_symbol, ps[i].symbol), max_correlation)

validate_trade(p, ps) ==
    IF p.quantity = None THEN <<FALSE, "Validation error">>     \* TypeError, caught
    ELSE LET risk_per_share == IF Upper(p.side) = "BUY" THEN RSub(p.price, p.stop_loss)
                               ELSE RSub(p.stop_loss, p.price)
             trade_risk == RMul(risk_per_share, p.quantity)
             position_value == RMul(p.quantity, p.price)
             reward_per_share == IF Upper(p.side) = "BUY" THEN RSub(p.take_profit, p.price)
                                 ELSE RSub(p.price, p.take_profit)
         IN  IF ~check_portfolio_heat(ps, trade_risk)
             THEN <<FALSE, "Portfolio risk limit exceeded">>
             ELSE IF ~check_position_correlation(p.symbol, ps)
             THEN <<FALSE, "High correlation with existing positions">>
             ELSE IF RGt(position_value, RMul(risk_account_balance, max_position_size))
             THEN <<FALSE, "Position size exceeds maximum limit">>
             ELSE IF /\ RGt(risk_per_share, R(0))
                     /\ RLt(RDiv(reward_per_share, risk_per_share), Frac(3, 2))
             THEN <<FALSE, "Risk/reward ratio too low">>
             ELSE <<TRUE, "Trade validated">>

\* the risk of the proposed trade as validate_trade computes it
ProposedRisk(p) ==
    IF p.quantity = None THEN R(0)
    ELSE IF Upper(p.side) = "BUY" THEN RMul(RSub(p.price, p.stop_loss), p.quantity)
    ELSE RMul(RSub(p.stop_loss, p.price), p.quantity)

otherThanRisk == <<trackerVars, sizingVars, signalVars, stopVars, barVars, metricVars,
     backtestVars>>

CheckPortfolioHeat ==
    /\ risk.called = "none"
    /\ risk' = [risk EXCEPT
                   !.called = "check_portfolio_heat",
                   !.result = <<check_portfolio_heat(risk.open_positions,
                                                     ProposedRisk(risk.proposal))>>]
    /\ UNCHANGED otherThanRisk

ValidateTrade ==
    /\ risk.called = "none"
    /\ risk' = [risk EXCEPT
                   !.called = "validate_trade",
                   !.result = validate_trade(risk.proposal, risk.open_positions)]
    /\ UNCHANGED otherThanRisk

max_drawdown_limit == Frac(15, 100)

\* lines 248-263
calculate_current_drawdown(current_portfolio_value) ==
    IF risk.portfolio_value_history = <<>> THEN R(0)
    ELSE LET peak_value == SeqMax(risk.portfolio_value_history)
         IN  IF RLe(peak_value, R(0)) THEN R(0)
             ELSE PyMax(R(0), RDiv(RSub(peak_value, current_portfolio_value), peak_value))

\* lines 265-279
should_reduce_risk(current_portfolio_value) ==
    RGt(calculate_current_drawdown(current_portfolio_value),
        RMul(max_drawdown_limit, Frac(8, 10)))

\* max(0.1, reduction_factor), lines 291-293
DrawdownFactor(current_portfolio_value) ==
    LET current_drawdown == calculate_current_drawdown(current_portfolio_value)
        reduction_factor == RSub(R(1), RDiv(current_drawdown, max_drawdown_limit))
    IN  PyMax(Frac(1, 10), reduction_factor)

\* max_positions / (num_positions + 1), line 300
PositionFactor == Frac(risk.max_positions, Len(risk.open_positions) + 1)

\* lines 281-306
get_risk_adjusted_position_size(base_position_size, current_portfolio_value) ==
    LET reduced == IF should_reduce_risk(current_portfolio_value)
                   THEN RMul(base_position_size, DrawdownFactor(current_portfolio_value))
                   ELSE base_position_size
        num_positions == Len(risk.open_positions)
    IN  IF RGe(R(num_positions), RMul(R(risk.max_positions), Frac(8, 10)))
        THEN RMul(reduced, PositionFactor)
        ELSE reduced

\* the lengths the two histories are cut back to (lines 314-315, 326-327)
VALUE_HISTORY_LIMIT == 1000
TRADE_HISTORY_LIMIT == 100

\* lines 308-318
update_portfolio_value(portfolio_value) ==
    LET appended == Append(risk.portfolio_value_history, portfolio_value)
    IN  IF Len(appended) > VALUE_HISTORY_LIMIT
        THEN LastN(appended, VALUE_HISTORY_LIMIT)
        ELSE appended

\* the cut keeping the oldest trades: recent_trades[:100]
add_trade_oldest(trade) ==
    LET appended == Append(risk.recent_trades, trade)
    IN  IF Len(appended) > TRADE_HISTORY_LIMIT
        THEN SubSeq(appended, 1, TRADE_HISTORY_LIMIT)
        ELSE appended

\* lines 320-330
add_trade(trade) ==
    LET appended == Append(risk.recent_trades, trade)
    IN  IF Len(appended) > TRADE_HISTORY_LIMIT
        THEN LastN(appended, TRADE_HISTORY_LIMIT)
        ELSE appended

MaxAdded == 102        \* bound on the number of add_trade calls
MaxUpdated == 1002     \* bound on the number of update_portfolio_value calls

\* the n-th trade added and the m-th value recorded
NthTrade(n) == [id |-> n]
NthValue(m) == R(m)

AddTrade ==
    /\ risk.added < MaxAdded
    /\ risk' = [risk EXCEPT !.added = @ + 1,
                            !.recent_trades = add_trade(NthTrade(risk.added + 1))]
    /\ UNCHANGED otherThanRisk

UpdatePortfolioValue ==
    /\ risk.updated < MaxUpdated
    /\ risk' = [risk EXCEPT
                   !.updated = @ + 1,
                   !.portfolio_value_history =
                       update_portfolio_value(NthValue(risk.updated + 1))]
    /\ UNCHANGED otherThanRisk

BaseSizes == {R(0), R(1), R(10)}
PortfolioValues == {R(-10), R(0), R(50), R(85), R(90), R(100)}

GetRiskAdjustedPositionSize ==
    /\ risk.called = "none"
    /\ \E b \in BaseSizes, v \in PortfolioValues :
          risk' = [risk EXCEPT
                      !.called = "get_risk_adjusted_position_size",
                      !.args = [base_position_size |-> b, current_portfolio_value |-> v],
                      !.result = <<get_risk_adjusted_position_size(b, v)>>]
    /\ UNCHANGED otherThanRisk

----------------------------------------------------------------------------
(* BacktestEngine: src/backtest.py                                         *)

\* len(pd.date_range(start_date, end_date, freq='D')); 0 when end precedes start
WindowDays == {0, 1, 2, 5, 10, 30}
Capitals == {R(1000), R(10000)}

\* np.random.uniform(-10, 25), np.random.uniform(2, 15), np.random.uniform(0.5, 2.5)
TotalReturns == {R(-10), R(0), R(24)}
MaxDrawdowns == {R(2), R(14)}
SharpeRatios == {Frac(1, 2), R(2)}

\* run_backtest for a window of total_days days and the three random draws
run_backtest(total_days, initial_capital, total_return, max_drawdown, sharpe_ratio) ==
    IF total_days = 0 THEN None              \* ZeroDivisionError in win_rate: return None
    ELSE LET winning_trades == (total_days * 6) \div 10
             losing_trades == total_days - winning_trades
         IN  [total_return |-> total_return,
              max_drawdown |-> max_drawdown,
              sharpe_ratio |-> sharpe_ratio,
              win_rate |-> RMul(Frac(winning_trades, total_days), R(100)),
              final_portfolio |-> RMul(initial_capital,
                                       RAdd(R(1), RDiv(total_return, R(100)))),
              total_trades |-> total_days,
              winning_trades |-> winning_trades,
              losing_trades |-> losing_trades,
              initial_capital |-> initial_capital]

otherThanBacktest ==
    <<trackerVars, sizingVars, signalVars, stopVars, barVars, metricVars, riskVars>>

\* self.trades, self.positions and the strategy are not touched by run_backtest
RunBacktest ==
    /\ ~backtest.ran
    /\ \E r \in TotalReturns, m \in MaxDrawdowns, sh \in SharpeRatios :
          backtest' = [backtest EXCEPT
                          !.ran = TRUE,
                          !.results = run_backtest(backtest.days, backtest.initial_capital,
                                                   r, m, sh)]
    /\ UNCHANGED otherThanBacktest

----------------------------------------------------------------------------
(* Specifications                                                          *)

\* TradingStrategy.__init__ defaults (lines 23-31) and the config.get defaults
DefaultConfig ==
    [risk_per_trade |-> Frac(1, 100), initial_capital |-> R(10000),
     strategy_name |-> "rsi_strategy", rsi_period |-> 14,
     rsi_overbought |-> R(70), rsi_oversold |-> R(30),
     volume_threshold |-> R(1000000)]

IdleSizing == [price |-> R(100), atr |-> R(0), account_balance |-> None, quantity |-> None,
               stop_distance |-> None, risk_per_trade |-> None]
IdleStops == [entry_price |-> R(100), atr |-> R(0), trend_strength |-> Frac(5, 10),
              side |-> "BUY", result |-> None]
IdleFrame == Frame(0, FALSE, <<>>, <<>>, <<>>, <<>>)
IdleSig == [called |-> "none", c |-> <<>>, result |-> None]
IdleRisk == [open_positions |-> <<>>, proposal |-> None, called |-> "none", result |-> None,
             portfolio_value_history |-> <<>>, recent_trades |-> <<>>,
             max_positions |-> 5, args |-> None, added |-> 0, updated |-> 0]
IdleBacktest == [days |-> 0, initial_capital |-> R(10000), trades |-> <<>>,
                 evaluated |-> <<>>, ran |-> FALSE, results |-> None]
IdleMetrics == [portfolio_values |-> <<>>, benchmark_values |-> None, trades |-> None,
                result |-> None, max_drawdown |-> None, called |-> {},
                drawdown_periods |-> None]

TrackerIdle ==
    /\ trades = <<>>
    /\ open_positions = <<>>
    /\ closed_trades = <<>>
    /\ data_file = None
    /\ now = 0

SizingIdle == config = DefaultConfig /\ recent_trades = <<>> /\ sizing = IdleSizing
SignalsIdle == df = IdleFrame /\ sig = IdleSig
StopsIdle == stops = IdleStops
BarsIdle == emitted = <<>>
MetricsIdle == metrics = IdleMetrics
RiskIdle == risk = IdleRisk
BacktestIdle == backtest = IdleBacktest

\* the trade tracker
otherThanTracker == <<sizingVars, signalVars, stopVars, barVars, metricVars, riskVars,
     backtestVars>>

Init == TrackerIdle /\ SizingIdle /\ SignalsIdle /\ StopsIdle /\ BarsIdle /\ MetricsIdle /\ RiskIdle /\ BacktestIdle

Next ==
    \/ OpenPosition /\ UNCHANGED otherThanTracker
    \/ ClosePosition /\ UNCHANGED otherThanTracker
    \/ UpdatePositionPrice /\ UNCHANGED otherThanTracker

Spec == Init /\ [][Next]_vars

\* the tracker under open_position and close_position calls only
InitPersistence == Init

NextPersistence ==
    \/ OpenPosition /\ UNCHANGED otherThanTracker
    \/ ClosePosition /\ UNCHANGED otherThanTracker

SpecPersistence == InitPersistence /\ [][NextPersistence]_vars

\* position sizing: the inputs are drawn in the initial state
InitSizing ==
    /\ TrackerIdle /\ SignalsIdle /\ StopsIdle /\ BarsIdle /\ MetricsIdle /\ RiskIdle /\ BacktestIdle
    /\ \E r \in BaseRisks : config = [DefaultConfig EXCEPT !.risk_per_trade = r]
    /\ recent_trades \in Histories
    /\ \E p \in SizingPrices, a \in Atrs, b \in Balances :
          sizing = [IdleSizing EXCEPT !.price = p, !.atr = a, !.account_balance = b]

otherThanSizing == <<trackerVars, signalVars, stopVars, barVars, metricVars, riskVars,
     backtestVars>>

NextSizing == CalculatePositionSize /\ UNCHANGED otherThanSizing

SpecSizing == InitSizing /\ [][NextSizing]_vars

\* the stop distance alone: atr is drawn as a fraction of the price, around the
\* 1% and 5% regime limits and the clamping limits
StopPrices == {R(0), Frac(1, 2), R(100), R(5000), R(110000)}

AtrRatios == {Frac(1, 1000), Frac(3, 1000), Frac(4, 1000), Frac(9, 1000), Frac(1, 100),
              Frac(11, 1000), Frac(2, 100), Frac(25, 1000), Frac(3, 100), Frac(5, 100),
              Frac(51, 1000), Frac(1, 10)}

AtrsFor(price) == {NaN, R(-1), R(0), R(1)} \cup {RMul(price, r) : r \in AtrRatios}

InitStopDistance ==
    /\ TrackerIdle /\ SignalsIdle /\ StopsIdle /\ BarsIdle /\ MetricsIdle /\ RiskIdle /\ BacktestIdle
    /\ config = DefaultConfig
    /\ recent_trades = <<>>
    /\ \E p \in StopPrices : \E a \in AtrsFor(p) :
          sizing = [IdleSizing EXCEPT !.price = p, !.atr = a]

NextStopDistance == CalculateDynamicStopDistance /\ UNCHANGED otherThanSizing

SpecStopDistance == InitStopDistance /\ [][NextStopDistance]_vars

\* adaptive stops
InitStops ==
    /\ TrackerIdle /\ SizingIdle /\ SignalsIdle /\ BarsIdle /\ MetricsIdle /\ RiskIdle /\ BacktestIdle
    /\ \E p \in EntryPrices, a \in StopAtrs, t \in TrendStrengths, s \in StopSides :
          stops = [entry_price |-> p, atr |-> a, trend_strength |-> t, side |-> s,
                   result |-> None]

otherThanStops == <<trackerVars, sizingVars, signalVars, barVars, metricVars, riskVars,
     backtestVars>>

NextStops == SetAdaptiveStops /\ UNCHANGED otherThanStops

SpecStops == InitStops /\ [][NextStops]_vars

\* signal generators: the frame and the configured strategy are drawn initially
InitSignals ==
    /\ TrackerIdle /\ StopsIdle /\ BarsIdle /\ MetricsIdle /\ RiskIdle /\ BacktestIdle
    /\ \E n \in StrategyNames \cup {UNKNOWN_STRATEGY} :
          config = [DefaultConfig EXCEPT !.strategy_name = n]
    /\ recent_trades = <<>>
    /\ sizing = IdleSizing
    /\ df \in Frames
    /\ sig = IdleSig

NextSignals ==
    \/ RsiStrategy
    \/ MacdStrategy
    \/ BollingerStrategy
    \/ MultiIndicatorStrategy
    \/ SmaCrossoverStrategy
    \/ EmaStrategy
    \/ MomentumStrategy
    \/ VolumeBreakoutStrategy
    \/ StochasticStrategy
    \/ GenerateSignal

SpecSignals == InitSignals /\ [][NextSignals]_vars

\* the strategy as configured, validated before anything else is called
RsiPeriods == {-1, 0, 14}
RsiOversolds == {R(-5), R(0), R(30), R(70), R(80)}
RsiOverboughts == {R(30), R(70), R(100), R(120)}

InitValidation ==
    /\ TrackerIdle /\ StopsIdle /\ BarsIdle /\ MetricsIdle /\ RiskIdle /\ BacktestIdle
    /\ \E n \in StrategyNames \cup {UNKNOWN_STRATEGY}, period \in RsiPeriods,
          oversold \in RsiOversolds, overbought \in RsiOverboughts :
          config = [DefaultConfig EXCEPT !.strategy_name = n, !.rsi_period = period,
                                         !.rsi_oversold = oversold,
                                         !.rsi_overbought = overbought]
    /\ recent_trades = <<>>
    /\ sizing = IdleSizing
    /\ df = IdleFrame
    /\ sig = IdleSig

NextValidation == ValidateStrategyConfig

SpecValidation == InitValidation /\ [][NextValidation]_vars

\* one generator called bar after bar: the caller appends a bar and calls again
MaxBars == 2

\* rows of an annotated frame: bands 90 / 100 / 110, macd_signal 0
BarRows ==
    {Row(cl, v, r, m, R(0), R(100), R(10)) :
        cl \in {R(89), R(95), R(111)}, v \in Volumes,
        r \in {R(28), R(32)}, m \in {Frac(-1, 2), Frac(1, 2)}}

BarFrames ==
    {[len |-> SMA_MIN_BARS, annotated |-> TRUE, added |-> {}, latest |-> l, previous |-> p] :
        l \in BarRows, p \in BarRows}

ActionOf(result) == IF result = None THEN "NONE" ELSE result.action

\* the rolling columns are functions of the data: what a call finds at the previous
\* bar is what the call before it found at the latest bar
SameSeries(name, c) ==
    \/ emitted = <<>>
    \/ LET last == emitted[Len(emitted)]
       IN  /\ last.called = name
           /\ CASE name \in {"sma_crossover_strategy", "stochastic_strategy"} ->
                       c[1] = last.c[3] /\ c[2] = last.c[4]
                 [] name = "momentum_strategy" -> c[2] = last.c[3]
                 [] OTHER -> TRUE

CallOnBar ==
    /\ Len(emitted) < MaxBars
    /\ \E name \in StrategyNames :
          /\ CallGenerator(name)
          /\ SameSeries(name, sig'.c)

NextBar ==
    /\ sig.called # "none"
    /\ Len(emitted) < MaxBars
    /\ emitted' = Append(emitted, [called |-> sig.called, c |-> sig.c,
                                   action |-> ActionOf(sig.result)])
    /\ \E row \in BarRows :
          df' = [df EXCEPT !.len = @ + 1, !.previous = df.latest, !.latest = row]
    /\ sig' = IdleSig
    /\ UNCHANGED <<trackerVars, sizingVars, stopVars, metricVars, riskVars, backtestVars>>

InitBars ==
    /\ TrackerIdle /\ SizingIdle /\ StopsIdle /\ BarsIdle /\ MetricsIdle /\ RiskIdle /\ BacktestIdle
    /\ df \in BarFrames
    /\ sig = IdleSig

NextBars ==
    \/ CallOnBar
    \/ NextBar

SpecBars == InitBars /\ [][NextBars]_vars

\* the metrics calculator: the series and the trade list are drawn initially
InitMetrics ==
    /\ TrackerIdle /\ SizingIdle /\ SignalsIdle /\ StopsIdle /\ BarsIdle /\ RiskIdle /\ BacktestIdle
    /\ \E pv \in Curves, bv \in Benchmarks, ts \in TradeLists :
          metrics = [IdleMetrics EXCEPT !.portfolio_values = pv, !.benchmark_values = bv,
                                        !.trades = ts]

NextMetrics ==
    \/ CalculateAllMetrics
    \/ CalculateMaxDrawdown

SpecMetrics == InitMetrics /\ [][NextMetrics]_vars

\* the drawdown runs of an equity curve long enough to hold two of them
MaxPoints == 5

InitDrawdown ==
    /\ TrackerIdle /\ SizingIdle /\ SignalsIdle /\ StopsIdle /\ BarsIdle /\ RiskIdle /\ BacktestIdle
    /\ \E pv \in SeqsUpTo(EquityValues, MaxPoints) :
          metrics = [IdleMetrics EXCEPT !.portfolio_values = pv]

NextDrawdown ==
    \/ CalculateDrawdownPeriods
    \/ CalculateDrawdownMetrics

SpecDrawdown == InitDrawdown /\ [][NextDrawdown]_vars

\* trade validation: the open positions and the proposed trade are drawn initially
InitRisk ==
    /\ TrackerIdle /\ SizingIdle /\ SignalsIdle /\ StopsIdle /\ BarsIdle /\ MetricsIdle /\ BacktestIdle
    /\ \E ps \in SeqsUpTo(RiskPositions, MaxOpen), p \in Proposals :
          risk = [IdleRisk EXCEPT !.open_positions = ps, !.proposal = p]

NextRisk ==
    \/ CheckPortfolioHeat
    \/ ValidateTrade

SpecRisk == InitRisk /\ [][NextRisk]_vars

\* the two histories of a RiskManager, from its construction on
InitHistory == Init

NextHistory ==
    \/ AddTrade
    \/ UpdatePortfolioValue

SpecHistory == InitHistory /\ [][NextHistory]_vars

\* the size adjustment: the value history, the number of open positions and
\* config['max_positions'] are drawn initially
OpenCounts == {0, 3, 4, 8, 9}
MaxPositionsSettings == {0, 1, 5, 10}
ValueHistories == SeqsUpTo({R(0), R(80), R(100)}, 2)

InitRiskAdjust ==
    /\ TrackerIdle /\ SizingIdle /\ SignalsIdle /\ StopsIdle /\ BarsIdle /\ MetricsIdle /\ BacktestIdle
    /\ \E n \in OpenCounts, mp \in MaxPositionsSettings, h \in ValueHistories :
          risk = [IdleRisk EXCEPT
                     !.open_positions =
                         [i \in 1..n |-> RiskPosition("BTC/USDT", "buy", R(100), R(95),
                                                      R(1), TRUE)],
                     !.max_positions = mp,
                     !.portfolio_value_history = h]

NextRiskAdjust == GetRiskAdjustedPositionSize

SpecRiskAdjust == InitRiskAdjust /\ [][NextRiskAdjust]_vars

\* the backtest engine: the window and the capital are drawn initially
InitBacktest ==
    /\ TrackerIdle /\ SizingIdle /\ SignalsIdle /\ StopsIdle /\ BarsIdle /\ MetricsIdle
    /\ RiskIdle
    /\ \E d \in WindowDays, c \in Capitals :
          backtest = [IdleBacktest EXCEPT !.days = d, !.initial_capital = c]

NextBacktest == RunBacktest

SpecBacktest == InitBacktest /\ [][NextBacktest]_vars

----------------------------------------------------------------------------
(* Properties                                                              *)

\* the balance calculate_position_size works with
SizingBalance ==
    IF sizing.account_balance = None THEN config.initial_capital
    ELSE sizing.account_balance

\* C1: whenever calculate_position_size has been called with price > 0 and
\* account_balance > 0, the returned quantity is > 0 and quantity * price is at
\* most 10% of the account balance.
C1_QuantityWithinTenPercent ==
    (sizing.quantity # None /\ RGt(sizing.price, R(0)) /\ RGt(SizingBalance, R(0)))
        => /\ RGt(sizing.quantity, R(0))
           /\ RLe(RMul(sizing.quantity, sizing.price), RMul(SizingBalance, Frac(1, 10)))

\* C2: calculate_position_size(price=5000, atr=100, account_balance=10000) with
\* base risk 1% and no recent trades returns 0.2.
C2_ScenarioQuantity ==
    (/\ sizing.quantity # None
     /\ sizing.price = R(5000) /\ sizing.atr = R(100)
     /\ sizing.account_balance = R(10000)
     /\ config.risk_per_trade = Frac(1, 100)
     /\ recent_trades = <<>>)
        => sizing.quantity = Frac(2, 10)

\* C3: every signal a generator or generate_signal returns has
\* 0 <= signal_strength <= 100.
C3_StrengthBounded ==
    sig.result # None
        => RLe(R(0), sig.result.signal_strength) /\ RLe(sig.result.signal_strength, R(100))

IsBuySide(side) == side \in {"BUY", "buy"}

\* C4: for entry_price > 0, any atr and any trend_strength in [0,1],
\* set_adaptive_stops returns stop_loss < entry_price < take_profit for a BUY
\* and take_profit < entry_price < stop_loss for a SELL.
C4_StopsStraddleEntry ==
    (stops.result # None /\ RGt(stops.entry_price, R(0)))
        => LET stop_loss == stops.result[1]
               take_profit == stops.result[2]
           IN  IF IsBuySide(stops.side)
               THEN RLt(stop_loss, stops.entry_price) /\ RLt(stops.entry_price, take_profit)
               ELSE RLt(take_profit, stops.entry_price) /\ RLt(stops.entry_price, stop_loss)

\* a SELL with atr <= 0 has been given its levels
C4_Witness ==
    /\ stops.result # None
    /\ RGt(stops.entry_price, R(0))
    /\ RLe(stops.atr, R(0))
    /\ stops.side = "SELL"
    /\ RLt(stops.result[2], stops.entry_price)
    /\ RLt(stops.entry_price, stops.result[1])

KeyOf(trade) == <<trade.exchange, trade.symbol, trade.side>>

\* C5: at most one trade with status 'open' exists per (exchange, symbol, side).
C5_OneOpenTradePerKey ==
    \A i, j \in 1..Len(trades) :
        (/\ trades[i].status = OPEN
         /\ trades[j].status = OPEN
         /\ KeyOf(trades[i]) = KeyOf(trades[j])) => i = j

\* commission_rate * (entry_price * quantity + exit_price * quantity)
BothLegsCommission(t) ==
    RMul(commission_rate,
         RAdd(RMul(t.entry_price, t.quantity), RMul(t.exit_price, t.quantity)))

\* C6: a trade closed by close_position has
\* pnl = (exit - entry) * quantity - commission on the entry and exit notional
\* when its side is buy, and the same with the difference reversed when sell.
C6_ClosedPnl ==
    \A i \in 1..Len(trades) :
        LET t == trades[i]
        IN  (t.status = CLOSED /\ t.side \in {"buy", "sell"})
                => t.pnl = RSub(RMul(IF t.side = "buy"
                                     THEN RSub(t.exit_price, t.entry_price)
                                     ELSE RSub(t.entry_price, t.exit_price),
                                     t.quantity),
                                BothLegsCommission(t))

\* the scenario: entry 100, exit 110, quantity 10, rate 0.1% gives 97.9
C6_Witness ==
    \E i \in 1..Len(trades) :
        /\ trades[i].status = CLOSED
        /\ trades[i].side = "buy"
        /\ trades[i].entry_price = R(100)
        /\ trades[i].exit_price = R(110)
        /\ trades[i].quantity = R(10)
        /\ trades[i].pnl = Frac(979, 10)
        /\ trades[i].commission = Frac(21, 10)

\* C7: a trade with status 'closed' is changed by no later call.
C7_ClosedTradesImmutable ==
    [][\A i \in 1..Len(trades) : trades[i].status = CLOSED => trades'[i] = trades[i]]_vars

\* the minimum window the generators are said to ask for
MinimumWindow(name) ==
    CASE name = "stochastic_strategy" -> 14
      [] name \in {"bollinger_strategy", "momentum_strategy", "volume_breakout_strategy"} -> 20
      [] name \in {"macd_strategy", "ema_strategy", "multi_indicator_strategy"} -> 26
      [] name = "sma_crossover_strategy" -> 50
      [] OTHER -> config.rsi_period

\* C8: a generator called with fewer bars than its minimum window returns None,
\* and so does generate_signal for the configured strategy.
C8_ShortSeriesNoSignal ==
    /\ (sig.called \in StrategyNames /\ df.len < MinimumWindow(sig.called))
           => sig.result = None
    /\ (sig.called = "generate_signal" /\ df.len < MinimumWindow(config.strategy_name))
           => sig.result = None

\* sma_crossover_strategy has returned None on 49 bars whose SMAs cross
C8_Witness ==
    /\ sig.called = "sma_crossover_strategy"
    /\ df.len = 49
    /\ RLe(sig.c[1], sig.c[2]) /\ RGt(sig.c[3], sig.c[4])
    /\ sig.result = None

\* the sub-generators' signals on the frame, and those among them with action a
SubSignals == <<rsi_strategy(df), macd_strategy(df), bollinger_strategy(df)>>
Agreeing(a) == {i \in 1..3 : SubSignals[i] # None /\ SubSignals[i].action = a}

RECURSIVE StrengthSum(_)
StrengthSum(S) ==
    IF S = {} THEN R(0)
    ELSE LET i == CHOOSE x \in S : TRUE
         IN  RAdd(SubSignals[i].signal_strength, StrengthSum(S \ {i}))

\* C9: multi_indicator_strategy emits action A only if at least two of the
\* three sub-generators return A; signal_strength is the mean of the agreeing
\* strengths and indicators_count their number; with fewer than two agreeing
\* in either direction it returns None.
C9_TwoOfThree ==
    sig.called = "multi_indicator_strategy"
        => /\ sig.result # None
                => LET agree == Agreeing(sig.result.action)
                   IN  /\ Cardinality(agree) >= 2
                       /\ sig.result.indicators_count = Cardinality(agree)
                       /\ RMul(sig.result.signal_strength, R(Cardinality(agree)))
                              = StrengthSum(agree)
           /\ (Cardinality(Agreeing("BUY")) < 2 /\ Cardinality(Agreeing("SELL")) < 2)
                => sig.result = None

\* exactly two sub-generators agree on BUY, with different strengths
C9_Witness ==
    /\ sig.called = "multi_indicator_strategy"
    /\ sig.result # None
    /\ sig.result.action = "BUY"
    /\ sig.result.indicators_count = 2
    /\ \E i, j \in Agreeing("BUY") :
          SubSignals[i].signal_strength # SubSignals[j].signal_strength

RsiScenario ==
    /\ sig.called = "rsi_strategy"
    /\ df.annotated /\ df.len >= config.rsi_period
    /\ config.rsi_oversold = R(30)
    /\ df.previous.rsi = R(28) /\ df.latest.rsi = R(32)

IsBuyOfStrengthFour ==
    /\ sig.result # None
    /\ sig.result.action = "BUY"
    /\ sig.result.signal_strength = R(4)

\* C10 as stated: at the bar where rsi crosses from 28 to 32 over oversold = 30
\* rsi_strategy emits a BUY of strength 4.
C10_Original == RsiScenario => IsBuyOfStrengthFour

\* C10 amended: it does so when the latest bar's volume exceeds volume_threshold.
C10_CrossingWithVolume ==
    (RsiScenario /\ RGt(df.latest.volume, config.volume_threshold))
        => IsBuyOfStrengthFour

C10_Witness ==
    /\ RsiScenario
    /\ RGt(df.latest.volume, config.volume_threshold)
    /\ IsBuyOfStrengthFour

\* C11: a generator called on successive bars never returns the same BUY or SELL
\* on two consecutive bars (it fires on a crossing, not on a level that persists)
C11_NoRepeatOnConsecutiveBars ==
    \A i \in 1..(Len(emitted) - 1) :
        emitted[i].action = "NONE" \/ emitted[i + 1].action # emitted[i].action

VolumeGated == {"rsi_strategy", "macd_strategy", "bollinger_strategy"}

\* the generator is past its length guard and finds its columns
Evaluates(name, d) ==
    /\ d.annotated
    /\ d.len >= 2
    /\ d.len >= (CASE name = "rsi_strategy" -> config.rsi_period
                   [] name = "macd_strategy" -> MACD_MIN_BARS
                   [] name = "bollinger_strategy" -> BOLLINGER_MIN_BARS)

SellCrossing(name, d) ==
    CASE name = "rsi_strategy" ->
            /\ RGe(d.previous.rsi, config.rsi_overbought)
            /\ RLt(d.latest.rsi, config.rsi_overbought)
      [] name = "macd_strategy" ->
            /\ RGe(d.previous.macd, d.previous.macd_signal)
            /\ RLt(d.latest.macd, d.latest.macd_signal)
      [] name = "bollinger_strategy" ->
            /\ RGe(d.previous.close, d.latest.bb_upper)
            /\ RLt(d.latest.close, d.latest.bb_upper)

\* C12: rsi_strategy, macd_strategy and bollinger_strategy return BUY only when the
\* latest volume is strictly above volume_threshold, and return SELL whenever the SELL
\* crossing holds, whatever the volume
C12_VolumeGatesBuyOnly ==
    sig.called \in VolumeGated =>
        /\ ActionOf(sig.result) = "BUY" => RGt(df.latest.volume, config.volume_threshold)
        /\ Evaluates(sig.called, df) /\ SellCrossing(sig.called, df)
              => ActionOf(sig.result) = "SELL"

C12_Witness ==
    /\ sig.called = "macd_strategy"
    /\ ActionOf(sig.result) = "SELL"
    /\ RLe(df.latest.volume, config.volume_threshold)

Has(m, k) == m # <<>> /\ k \in DOMAIN m

NonDecreasingPositive(pv) ==
    /\ \A i \in 1..Len(pv) : RGt(pv[i], R(0))
    /\ \A i \in 1..(Len(pv) - 1) : RLe(pv[i], pv[i + 1])

NoDrawdownReported ==
    /\ "calculate_max_drawdown" \in metrics.called => metrics.max_drawdown = R(0)
    /\ "calculate_all_metrics" \in metrics.called =>
          /\ Has(metrics.result, "Max. Drawdown [%]")
          /\ metrics.result["Max. Drawdown [%]"] = R(0)
          /\ metrics.result["Max. Drawdown Duration"] = R(0)
          /\ metrics.result["Avg. Drawdown Duration"] = R(0)

\* C13 as stated: for every positive equity curve that never decreases the maximum
\* drawdown is 0, 'Max. Drawdown [%]' is 0 and both drawdown durations are 0
C13_Original ==
    NonDecreasingPositive(metrics.portfolio_values) => NoDrawdownReported

\* C13: the same for curves of at least two points; a shorter series gets no
\* drawdown metrics at all, and of an empty one the maximum drawdown is NaN
C13_MonotoneCurveNoDrawdown ==
    /\ Len(metrics.portfolio_values) >= 2
    /\ NonDecreasingPositive(metrics.portfolio_values)
    => NoDrawdownReported

C13_Witness ==
    /\ metrics.portfolio_values = <<R(90), R(100), R(100)>>
    /\ metrics.called = {"calculate_all_metrics", "calculate_max_drawdown"}
    /\ metrics.max_drawdown = R(0)
    /\ metrics.result["Max. Drawdown [%]"] = R(0)

\* the metric is in the mapping and is a finite number
Defined(k) == Has(metrics.result, k) /\ IsFinite(metrics.result[k])

RatiosComputed ==
    /\ "calculate_all_metrics" \in metrics.called
    /\ Len(metrics.portfolio_values) >= 2
    /\ pct_change(metrics.portfolio_values) # <<>>

\* Sharpe, Sortino, Calmar, profit factor, beta and win rate with a zero denominator
ZeroDenominatorRatios ==
    LET pv == metrics.portfolio_values
        bv == IF metrics.benchmark_values = None THEN <<>> ELSE metrics.benchmark_values[1]
        ts == IF metrics.trades = None THEN <<>> ELSE metrics.trades[1]
        returns == pct_change(pv)
        downside == SelectSeq(returns, IsNegativeValue)
        completed == SelectSeq(ts, IsCompleted)
        pnls == [i \in 1..Len(completed) |-> TradePnl(completed[i])]
    IN  /\ RatiosComputed /\ Std(returns) = R(0) => Defined("Sharpe Ratio")
        /\ RatiosComputed /\ (downside = <<>> \/ Std(downside) = R(0))
              => Defined("Sortino Ratio")
        /\ RatiosComputed /\ calculate_max_drawdown(pv) = R(0) => Defined("Calmar Ratio")
        /\ "calculate_all_metrics" \in metrics.called /\ metrics.trades # None =>
              /\ SelectSeq(pnls, IsNegative) = <<>> => Defined("Profit Factor")
              /\ completed = <<>> => Defined("Win Rate [%]")
        /\ /\ "calculate_all_metrics" \in metrics.called
           /\ metrics.benchmark_values # None
           /\ Len(bv) = Len(pv) /\ Len(pv) >= 2
           /\ Len(pct_change(bv)) = Len(returns)
           /\ Var(pct_change(bv)) = R(0)
           => Defined("Beta")

ReturnWithZeroInitialEquity ==
    /\ "calculate_all_metrics" \in metrics.called
    /\ Len(metrics.portfolio_values) >= 2
    /\ RZero(metrics.portfolio_values[1])
    => Defined("Return [%]")

\* C14: every ratio whose denominator is zero (Sharpe, Sortino, Calmar, profit factor,
\* beta, win rate, Return [%]) is in the metrics mapping with a finite sentinel value
C14_ZeroDenominatorSentinels == ZeroDenominatorRatios /\ ReturnWithZeroInitialEquity

\* |entry_price - stop_loss| * quantity of a position that has a stop-loss
DistanceRisk(position) ==
    IF position.stop_loss = None THEN R(0)
    ELSE RMul(RAbs(RSub(position.entry_price, position.stop_loss)), position.quantity)

HeatExceeded ==
    LET ps == risk.open_positions
    IN  RGt(RAdd(ProposedRisk(risk.proposal),
                 RSum([i \in 1..Len(ps) |-> DistanceRisk(ps[i])])),
            RMul(max_portfolio_risk, risk_account_balance))

\* C15: check_portfolio_heat rejects exactly when the sum over all open positions of
\* (distance from entry price to stop-loss x quantity) plus the proposed trade's risk
\* exceeds max_portfolio_risk x account balance, and validate_trade rejects then too
C15_PortfolioHeat ==
    /\ risk.called = "check_portfolio_heat" => (risk.result[1] <=> ~HeatExceeded)
    /\ risk.called = "validate_trade" /\ risk.proposal.quantity # None /\ HeatExceeded
          => ~risk.result[1]

\* the verdict the four checks give, taken in the order heat, correlation, size,
\* risk/reward
FirstFailingCheck(p, ps) ==
    LET risk_per_share == IF Upper(p.side) = "BUY" THEN RSub(p.price, p.stop_loss)
                          ELSE RSub(p.stop_loss, p.price)
        reward_per_share == IF Upper(p.side) = "BUY" THEN RSub(p.take_profit, p.price)
                            ELSE RSub(p.price, p.take_profit)
    IN  IF ~check_portfolio_heat(ps, ProposedRisk(p))
        THEN <<FALSE, "Portfolio risk limit exceeded">>
        ELSE IF \E i \in 1..Len(ps) :
                   RGt(calculate_position_correlation(p.symbol, ps[i].symbol),
                       max_correlation)
        THEN <<FALSE, "High correlation with existing positions">>
        ELSE IF RGt(RMul(p.quantity, p.price), RMul(max_position_size, risk_account_balance))
        THEN <<FALSE, "Position size exceeds maximum limit">>
        ELSE IF RGt(risk_per_share, R(0))
                /\ RLt(reward_per_share, RMul(Frac(3, 2), risk_per_share))
        THEN <<FALSE, "Risk/reward ratio too low">>
        ELSE <<TRUE, "Trade validated">>

\* without an internal error the verdict names the first failing check
VerdictOfChecks ==
    /\ risk.called = "validate_trade"
    /\ risk.proposal.quantity # None
    /\ ~HeatRaises(risk.open_positions)
    => risk.result = FirstFailingCheck(risk.proposal, risk.open_positions)

\* an error while validating, in validate_trade or in a check it calls, is a rejection
InternalErrorRejected ==
    /\ risk.called = "validate_trade"
    /\ (risk.proposal.quantity = None \/ HeatRaises(risk.open_positions))
    => Len(risk.result) = 2 /\ ~risk.result[1]

\* C16: validate_trade returns a pair (accepted, reason); a failed check gives
\* (False, reason of the first failing check in the order heat, correlation, size,
\* risk/reward) and an internal error gives (False, reason) as well
C16_ValidateTradeVerdict == VerdictOfChecks /\ InternalErrorRejected

\* C17: calculate_position_size returns a quantity for every input; with atr <= 0 the
\* stop distance is 2% of price, and when the arithmetic fails (price = 0) the quantity
\* returned is the minimum tradeable quantity 0.001
C17_SizingFailsSafe ==
    sizing.quantity # None =>
        /\ RLe(sizing.atr, R(0)) =>
              calculate_dynamic_stop_distance(sizing.price, sizing.atr)
                  = RMul(sizing.price, Frac(2, 100))
        /\ RZero(sizing.price) => sizing.quantity = Frac(1, 1000)


\* C18: run_backtest evaluates the signals of every bar in chronological order, closes
\* a position only on a bar after the one that opened it, and reports results
\* derived from the trades it simulated
C18_BacktestSimulatesTrades ==
    backtest.ran /\ backtest.results # None =>
        /\ backtest.evaluated = [i \in 1..backtest.days |-> i]
        /\ \A i \in 1..Len(backtest.trades) :
              backtest.trades[i].exit_bar > backtest.trades[i].entry_bar
        /\ backtest.results.total_trades = Len(backtest.trades)

\* C19: calculate_indicators, the generators and generate_signal leave the series of
\* the caller and the fields of the TradingStrategy as they were
C19_SignalsSideEffectFree ==
    [][df' = df /\ config' = config /\ recent_trades' = recent_trades]_vars

\* max(lo, min(x, hi)) for numbers
Clamp(x, lo, hi) == IF RLt(x, lo) THEN lo ELSE IF RGt(x, hi) THEN hi ELSE x

RegimeMultiplier(price, atr) ==
    IF RGt(atr, RMul(Frac(5, 100), price)) THEN R(3)
    ELSE IF RLt(atr, RMul(Frac(1, 100), price)) THEN Frac(3, 2)
    ELSE R(2)

\* C20: for price > 0 calculate_dynamic_stop_distance is 0.02 x price when atr <= 0 and
\* clamp(m x atr, 0.005 x price, 0.05 x price) otherwise, m being 3.0, 1.5 or 2.0 by
\* the volatility regime; it lies within [0.5%, 5%] of price and does not decrease
\* when atr grows
C20_StopDistance ==
    sizing.stop_distance # None /\ RGt(sizing.price, R(0)) =>
        LET price == sizing.price
            atr == sizing.atr
            d == sizing.stop_distance
        IN  /\ RLe(atr, R(0)) => d = RMul(Frac(2, 100), price)
            /\ RGt(atr, R(0)) =>
                  d = Clamp(RMul(RegimeMultiplier(price, atr), atr),
                            RMul(Frac(5, 1000), price), RMul(Frac(5, 100), price))
            /\ RGe(d, RMul(Frac(5, 1000), price)) /\ RLe(d, RMul(Frac(5, 100), price))
            /\ \A larger \in AtrsFor(price) :
                  RGt(atr, R(0)) /\ RGt(larger, atr)
                      => RLe(d, calculate_dynamic_stop_distance(price, larger))

C20_Witness ==
    /\ sizing.price = R(100) /\ sizing.atr = Frac(51, 10)
    /\ sizing.stop_distance = R(5)

\* the multipliers set_adaptive_stops ends up with for the inputs in stops
StopRegime ==
    LET atr == IF RLe(stops.atr, R(0)) THEN RMul(stops.entry_price, Frac(2, 100))
               ELSE stops.atr
    IN  VolatilityMultipliers(TrendMultipliers(stops.trend_strength),
                              RDiv(atr, stops.entry_price))

\* the returned levels proposed to validate_trade with nothing else at risk
LevelsAsProposal ==
    [symbol |-> "BTC/USDT", side |-> stops.side, quantity |-> R(1),
     price |-> stops.entry_price, stop_loss |-> stops.result[1],
     take_profit |-> stops.result[2]]

\* C21: for entry_price > 0 the levels of set_adaptive_stops have a stop distance
\* within [0.5%, 5%] of entry_price and a take-profit distance equal to that
\* stop distance times profit multiplier / stop multiplier, which is at least
\* 1.5 times the stop distance, so validate_trade does not reject them for
\* their risk/reward ratio.
C21_AdaptiveStopsRewardRisk ==
    (stops.result # None /\ RGt(stops.entry_price, R(0)))
        => LET entry == stops.entry_price
               buy == Upper(stops.side) = "BUY"
               stop_distance == IF buy THEN RSub(entry, stops.result[1])
                                ELSE RSub(stops.result[1], entry)
               profit_distance == IF buy THEN RSub(stops.result[2], entry)
                                  ELSE RSub(entry, stops.result[2])
               m == StopRegime
           IN  /\ RGe(stop_distance, RMul(entry, Frac(5, 1000)))
               /\ RLe(stop_distance, RMul(entry, Frac(5, 100)))
               /\ profit_distance = RMul(stop_distance, RDiv(m[2], m[1]))
               /\ RGe(profit_distance, RMul(Frac(3, 2), stop_distance))
               /\ validate_trade(LevelsAsProposal, <<>>)[2] # "Risk/reward ratio too low"

\* a sell in the high-volatility regime: the stop is clamped to 5% and the target
\* is 1.6 times as far
C21_Witness ==
    /\ stops.result # None
    /\ stops.entry_price = R(100)
    /\ stops.atr = R(10)
    /\ stops.side = "sell"
    /\ stops.result = <<R(105), R(92)>>
    /\ validate_trade(LevelsAsProposal, <<>>) = <<TRUE, "Trade validated">>

\* the Kelly fraction of the recent trades, clamped to [0, 0.25]
ClampedKelly ==
    LET win_rate == get_recent_win_rate
        avg_win == get_average_win
        avg_loss == get_average_loss
        raw == RDiv(RSub(RMul(win_rate, avg_win), RMul(RSub(R(1), win_rate), avg_loss)),
                    avg_win)
    IN  PyMax(R(0), PyMin(raw, Frac(25, 100)))

\* C22: with at least 5 recent trades and a non-zero average loss,
\* calculate_position_size works with risk_per_trade = min(performance-adjusted
\* risk, Kelly fraction clamped to [0, 0.25]), also when the recent win rate is
\* 0; with fewer than 5 recent trades it works with the configured base risk.
C22_KellyCap ==
    sizing.risk_per_trade # None
        => IF Len(recent_trades) >= 5
           THEN ~RZero(get_average_loss)
                    => sizing.risk_per_trade[1] =
                           PyMin(adjust_risk_based_on_performance(config.risk_per_trade),
                                 ClampedKelly)
           ELSE sizing.risk_per_trade[1] = config.risk_per_trade

\* the same with a positive recent win rate and at least 5 recent trades
KellyCapWithWins ==
    (/\ sizing.risk_per_trade # None
     /\ Len(recent_trades) >= 5
     /\ RGt(get_recent_win_rate, R(0)))
        => sizing.risk_per_trade[1] =
               PyMin(adjust_risk_based_on_performance(config.risk_per_trade), ClampedKelly)

\* five recent trades without a win: the Kelly fraction is 0 and is not applied
KellySkippedWithoutWins ==
    /\ sizing.risk_per_trade # None
    /\ Len(recent_trades) >= 5
    /\ RZero(get_recent_win_rate)
    /\ ClampedKelly = R(0)
    /\ RGt(sizing.risk_per_trade[1], R(0))

\* point i of the curve is below the running peak
BelowPeak(pv, i) == RLt(pv[i], RunningMax(pv)[i])

PointsInDrawdown(pv) == {i \in 1..Len(pv) : BelowPeak(pv, i)}

\* the first points of the maximal runs of points in drawdown
RunStarts(pv) == {i \in PointsInDrawdown(pv) : i = 1 \/ ~BelowPeak(pv, i - 1)}

\* the length of the maximal run that starts at a
RunLength(pv, a) ==
    LET ends == {b \in a..Len(pv) : /\ \A i \in a..b : BelowPeak(pv, i)
                                    /\ (b = Len(pv) \/ ~BelowPeak(pv, b + 1))}
    IN  (CHOOSE b \in ends : TRUE) - a + 1

\* the k-th run start in series order
KthStart(pv, k) ==
    CHOOSE a \in RunStarts(pv) : Cardinality({s \in RunStarts(pv) : s <= a}) = k

ValidRsiParameters ==
    /\ config.rsi_period > 0
    /\ RLt(R(0), config.rsi_oversold)
    /\ RLt(config.rsi_oversold, config.rsi_overbought)
    /\ RLt(config.rsi_overbought, R(100))

DefaultParameters ==
    /\ config.rsi_period = DefaultConfig.rsi_period
    /\ config.rsi_oversold = DefaultConfig.rsi_oversold
    /\ config.rsi_overbought = DefaultConfig.rsi_overbought

\* C24: validate_strategy_config returns True for rsi_strategy exactly when
\* rsi_period > 0 and 0 < rsi_oversold < rsi_overbought < 100, and returns True
\* for each of the nine strategy names generate_signal dispatches on when the
\* parameters are the defaults.
C24_ValidateStrategyConfig ==
    sig.called = "validate_strategy_config"
        => /\ config.strategy_name = "rsi_strategy"
                 => (sig.result[1] <=> ValidRsiParameters)
           /\ (config.strategy_name \in StrategyNames /\ DefaultParameters)
                 => sig.result[1]

\* the rsi_strategy half of C24 alone
RsiParametersValidated ==
    (sig.called = "validate_strategy_config" /\ config.strategy_name = "rsi_strategy")
        => (sig.result[1] <=> ValidRsiParameters)

\* trade i is the value of an entry of open_positions / an element of closed_trades
InOpenPositions(i) == \E k \in DOMAIN open_positions : open_positions[k] = i
InClosedTrades(i) == \E j \in 1..Len(closed_trades) : closed_trades[j] = i

\* get_position_summary: total_trades, open_positions and closed_trades
SummaryCounts ==
    [total_trades |-> Len(trades),
     open_positions |-> Cardinality(DOMAIN open_positions),
     closed_trades |-> Len(closed_trades)]

\* C25: every trade in trades is in exactly one of open_positions (with status
\* open) or closed_trades (with status closed), so the summary's total_trades is
\* open_positions + closed_trades, and every trade with status open is the one
\* close_position finds under its (exchange, symbol, side).
C25_TrackerBookkeeping ==
    /\ \A i \in 1..Len(trades) :
          \/ InOpenPositions(i) /\ ~InClosedTrades(i) /\ trades[i].status = OPEN
          \/ InClosedTrades(i) /\ ~InOpenPositions(i) /\ trades[i].status = CLOSED
    /\ SummaryCounts.total_trades =
          SummaryCounts.open_positions + SummaryCounts.closed_trades
    /\ \A i \in 1..Len(trades) :
          trades[i].status = OPEN
              => /\ KeyOf(trades[i]) \in DOMAIN open_positions
                 /\ open_positions[KeyOf(trades[i])] = i

\* pnl before the commission was taken off
GrossOfClosed(t) == RAdd(t.pnl, t.commission)

\* C26: a side the signal generators emit and RiskManager treats as long ('BUY',
\* compared case-insensitively) is long for the tracker too: a closed position
\* opened with 'BUY' that exited above its entry price has a positive gross pnl,
\* and one opened with a sell side that exited below its entry likewise.
C26_SideReadAlike ==
    \A j \in 1..Len(closed_trades) :
        LET t == trades[closed_trades[j]]
        IN  (t.status = CLOSED /\ RGt(t.quantity, R(0)))
                => /\ (Upper(t.side) = "BUY" /\ RGt(t.exit_price, t.entry_price))
                        => RGt(GrossOfClosed(t), R(0))
                   /\ (Upper(t.side) = "SELL" /\ RLt(t.exit_price, t.entry_price))
                        => RGt(GrossOfClosed(t), R(0))

\* the same for the lower-case sides Trade.side documents
LowerCaseSidesReadAlike ==
    \A j \in 1..Len(closed_trades) :
        LET t == trades[closed_trades[j]]
        IN  (t.status = CLOSED /\ RGt(t.quantity, R(0)) /\ t.side \in {"buy", "sell"})
                => /\ (t.side = "buy" /\ RGt(t.exit_price, t.entry_price))
                        => RGt(GrossOfClosed(t), R(0))
                   /\ (t.side = "sell" /\ RLt(t.exit_price, t.entry_price))
                        => RGt(GrossOfClosed(t), R(0))

Accepted == risk.called = "validate_trade" /\ risk.result[1]

\* the proposed levels straddle the price in the direction of the side and the
\* take-profit is at least 1.5 times as far as the stop-loss
StraddlesWithRewardRisk(p) ==
    LET buy == Upper(p.side) = "BUY"
        stop_distance == IF buy THEN RSub(p.price, p.stop_loss)
                         ELSE RSub(p.stop_loss, p.price)
        profit_distance == IF buy THEN RSub(p.take_profit, p.price)
                           ELSE RSub(p.price, p.take_profit)
    IN  /\ RGt(stop_distance, R(0))
        /\ RGt(profit_distance, R(0))
        /\ RGe(profit_distance, RMul(Frac(3, 2), stop_distance))

\* C27: every trade validate_trade accepts has its stop-loss on the losing side
\* of the price and its take-profit on the winning side (BUY: stop_loss < price
\* < take_profit; SELL: take_profit < price < stop_loss) and a reward-to-risk
\* ratio of at least 1.5.
C27_AcceptedTradesStraddle == Accepted => StraddlesWithRewardRisk(risk.proposal)

\* an accepted trade whose stop-loss is on the losing side has the ratio
AcceptedWithStopBelowRisk ==
    LET p == risk.proposal
        stop_distance == IF Upper(p.side) = "BUY" THEN RSub(p.price, p.stop_loss)
                         ELSE RSub(p.stop_loss, p.price)
    IN  (Accepted /\ RGt(stop_distance, R(0))) => StraddlesWithRewardRisk(p)

SizeAdjusted == risk.called = "get_risk_adjusted_position_size"

\* C28: get_risk_adjusted_position_size only ever reduces: for any
\* base_position_size >= 0, any value history, any number of open positions and
\* any max_positions setting the returned size is <= base_position_size.
C28_AdjustmentOnlyReduces ==
    (SizeAdjusted /\ RGe(risk.args.base_position_size, R(0)))
        => RLe(risk.result[1], risk.args.base_position_size)

\* the drawdown factor lies in [0.1, 1]
DrawdownFactorBounded ==
    SizeAdjusted
        => LET f == DrawdownFactor(risk.args.current_portfolio_value)
           IN  RGe(f, Frac(1, 10)) /\ RLe(f, R(1))

\* with the default max_positions of 5 the size is never raised
DefaultMaxPositionsOnlyReduces ==
    (SizeAdjusted /\ RGe(risk.args.base_position_size, R(0)) /\ risk.max_positions = 5)
        => RLe(risk.result[1], risk.args.base_position_size)

IntMin(a, b) == IF a < b THEN a ELSE b

\* C29: after n add_trade calls and m update_portfolio_value calls recent_trades
\* holds exactly the last min(n, 100) trades added, in insertion order, and
\* portfolio_value_history exactly the last min(m, 1000) values, in insertion
\* order.
C29_HistoriesBounded ==
    LET n == risk.added
        m == risk.updated
        kept == IntMin(n, 100)
        held == IntMin(m, 1000)
    IN  /\ risk.recent_trades = [i \in 1..kept |-> NthTrade(n - kept + i)]
        /\ risk.portfolio_value_history = [i \in 1..held |-> NthValue(m - held + i)]

\* both histories have been cut back: the first trade and the first value are gone
C29_Witness ==
    /\ risk.added = 101
    /\ Len(risk.recent_trades) = 100
    /\ risk.recent_trades[1] = NthTrade(2)
    /\ risk.updated = 1001
    /\ Len(risk.portfolio_value_history) = 1000
    /\ risk.portfolio_value_history[1] = NthValue(2)

\* C30: after any sequence of open_position and close_position calls a fresh
\* TradeTracker that loads the file save_trades wrote has the same trades, the
\* same open_positions mapping and the same closed_trades sequence in the same
\* order as the tracker that saved it.
C30_PersistenceRoundTrip ==
    LET fresh == load_trades(data_file)
    IN  /\ fresh.trades = trades
        /\ fresh.open_positions = open_positions
        /\ fresh.closed_trades = closed_trades

\* as long as no call has raised and no key was opened twice, the trades
\* themselves and the open positions do come back, and the closed trades as a set
RoundTripUpToOrder ==
    (/\ \A i \in 1..Len(trades) : RGt(trades[i].quantity, R(0))
     /\ \A i, j \in 1..Len(trades) : KeyOf(trades[i]) = KeyOf(trades[j]) => i = j)
        => LET fresh == load_trades(data_file)
           IN  /\ fresh.trades = trades
               /\ fresh.open_positions = open_positions
               /\ {fresh.closed_trades[j] : j \in 1..Len(fresh.closed_trades)} =
                      {closed_trades[j] : j \in 1..Len(closed_trades)}

\* two positions closed in the reverse of the order they were opened in
ClosedInReverse ==
    /\ Len(trades) = 2
    /\ closed_trades = <<2, 1>>
    /\ load_trades(data_file).closed_trades = <<1, 2>>
    /\ \A i \in 1..2 : RGt(trades[i].quantity, R(0))

=============================================================================
